---- MODULE Spec2Model ----
(***************************************************************************)
(* RxLite: Subscriber / Subscription / Subject.                            *)
(*                                                                         *)
(* Two specifications share the per-subscriber state:                      *)
(*   Spec         one subscription, several threads; every atomic access  *)
(*                of Subscriber::next/error/complete, Subscription::       *)
(*                unsubscribe and ~Subscription is one step, so that the   *)
(*                threads interleave between a flag access and the         *)
(*                callback that follows it.                                *)
(*   SpecSubject  a Subject driven by one thread; each call (subscribe,    *)
(*                next, complete, unsubscribe, copy, drop) is one step.    *)
(***************************************************************************)
EXTENDS Integers, Sequences, FiniteSets, TLC

\* ---------------------------------------------------------------- bounds
NumThreads == 2      \* threads of Spec
MaxOps     == 4      \* calls started in one behaviour of Spec
MaxCalls   == 6      \* calls made in one behaviour of SpecSubject
MaxSubs    == 3      \* subscribe calls on the Subject in one behaviour
MaxVal     == 2      \* values are 1..MaxVal
MaxHandles == 2      \* copies of one Subscription alive at once (SpecSubject)
MaxFrom    == 2      \* the vectors handed to Observable::from have 0..MaxFrom elements
MaxCap     == 2      \* bufferSize of the ReplaySubject is 0..MaxCap
MaxConc    == 4      \* calls made in one behaviour of SpecReplayConc

Threads == 1..NumThreads
SubIds  == 1..MaxSubs
Values  == 1..MaxVal

VARIABLES
    inactive,       \* [SubIds -> BOOLEAN]  *sharedInactiveFlag of each Subscriber
    running,        \* [SubIds -> BOOLEAN]  Execution::running
    useCount,       \* [SubIds -> Nat]      sharedExecution.use_count()
    teardownCount,  \* [SubIds -> Nat]      number of teardownLogic() invocations
    log,            \* sequence of observer callbacks, in invocation order
    subscribers,    \* SubscriberManager::subscribers (the Subject's list)
    created,        \* number of Subscribers created so far
    pc,             \* [Threads -> position inside the current call]
    arg,            \* [Threads -> value passed to the pending next()]
    hasHandle,      \* [Threads -> BOOLEAN] the thread owns a Subscription copy
    opCount,        \* number of calls started
    lastOp,         \* the latest call started on the Subject side
    released,       \* [SubIds -> BOOLEAN] unsubscribe() was called or every handle is gone
    completeCalls,  \* number of Subject::complete calls so far
    terminalCalls,  \* number of Subscriber::error/complete calls so far
    lenAtUnsub,     \* Len(log) when the first unsubscribe() returned, -1 before
    errorCalls,     \* number of Subject::error calls so far
    emitted,        \* the values passed to next() of the subject, oldest first
    history,        \* ReplaySubjectBase::history
    bufferSize,     \* ReplaySubjectBase::bufferSize
    latestRef,      \* what *latestValue of the BehaviorSubject refers to:
                    \*   "param" the constructor's parameter (gone after construction),
                    \*   "temp"  a temporary argument of next (gone after the call),
                    \*   "var"   a variable of the caller that is still alive
    callerVar,      \* the content of that variable of the caller
    initialValue,   \* the value the BehaviorSubject was constructed with
    opKind,         \* the operator piped onto the source Subject ("none": no pipe)
    otherSubscribers, \* the list of the second input Subject (combineLatest)
    threw,          \* subscribe on the operator's output left by an exception
    seen,           \* distinct: the unordered_set of the intermediate observer
    lastValue,      \* distinctUntilChanged: the optional, << >> or << v >>
    latestValues,   \* combineLatest: one optional per input
    completedFlags, \* combineLatest: one flag per input
    lastIn,         \* per input, the last value it emitted since the subscribe
    sourceSeq,      \* the values the source emitted from the subscribe on the
                    \* operator's output to the source's completion
    doneInputs,     \* the inputs that completed or failed since that subscribe
    stateAtNext,    \* the operator's state (seen, lastValue, latestValues) at
                    \* the moment its onNext last called the downstream next
    fromValues,     \* the vector handed to Observable::from
    subscriptions,  \* the children in the vector of the parent Subscription
    stopFlag,       \* the atomic flag shared by a producer thread and its teardown
    capture,        \* how the producer thread holds the Subscriber
    teardownOrder,  \* the subscriptions whose teardownLogic ran, in that order
    sharedLocks,    \* [Threads -> Nat] the shared locks each thread holds on
                    \* SubscriberManager::mutex
    cursor,         \* [Threads -> Nat] the position of each thread's loop
                    \* over the subscriber list, 0 outside a loop
    startLen        \* [Threads -> Nat] Len(log) when the thread's broadcast began

replayVars   == << history, bufferSize >>
behaviorVars == << latestRef, callerVar, initialValue >>

\* The state of the subject variants, which Spec and SpecSubject leave alone.
opVars == << opKind, otherSubscribers, threw, seen, lastValue, latestValues,
            completedFlags, lastIn, sourceSeq, doneInputs, stateAtNext >>

syncVars == << teardownOrder, sharedLocks, cursor, startLen >>

moreVars == << fromValues, subscriptions, stopFlag, capture, syncVars >>

extVars == << errorCalls, emitted, replayVars, behaviorVars, opVars, moreVars >>

vars == << inactive, running, useCount, teardownCount, log, subscribers, created,
           pc, arg, hasHandle, opCount, lastOp, released, completeCalls,
           terminalCalls, lenAtUnsub, extVars >>

\* The state of the calling threads of Spec.
thrVars == << pc, arg, hasHandle, terminalCalls, lenAtUnsub >>

subjVars   == << subscribers, created, lastOp, released, completeCalls, extVars >>
threadVars == << thrVars, extVars >>

\* ------------------------------------------------------- observer callbacks
\* One entry of log: the Observer of subscriber s had onNext(v), onError or
\* onComplete invoked.
OnNext(s, v)  == [sub |-> s, kind |-> "next", val |-> v]
OnError(s)    == [sub |-> s, kind |-> "error", val |-> 0]
OnComplete(s) == [sub |-> s, kind |-> "complete", val |-> 0]

IsTerminal(e) == e.kind \in {"error", "complete"}

\* The callbacks the Observer of subscriber s has received, in order.
Received(s) == SelectSeq(log, LAMBDA e : e.sub = s)

TerminalCount(s) == Len(SelectSeq(log, LAMBDA e : e.sub = s /\ IsTerminal(e)))

\* The subscriber of Spec.
S0 == 1

\* The inputs of an operator: 0 is the source, 1 the other observable.
Inputs == 0..1

\* No teardown has run, no thread holds the mutex or is inside a loop.
NoSync ==
    /\ teardownOrder = << >>
    /\ sharedLocks = [t \in Threads |-> 0]
    /\ cursor = [t \in Threads |-> 0]
    /\ startLen = [t \in Threads |-> 0]

\* No Observable::from, no child Subscription and no producer thread.
NoExtras ==
    /\ NoSync
    /\ fromValues = << >>
    /\ subscriptions = << >>
    /\ stopFlag = FALSE
    /\ capture = "none"

\* The state an operator's onSubscribe creates: an empty set, an empty
\* optional, one empty optional per input.
FreshState ==
    [seen |-> {}, lastValue |-> << >>, latestValues |-> [i \in Inputs |-> << >>]]

\* No operator is piped onto the subject.
NoOperator ==
    /\ stateAtNext = FreshState
    /\ opKind = "none"
    /\ otherSubscribers = << >>
    /\ threw = FALSE
    /\ seen = {}
    /\ lastValue = << >>
    /\ latestValues = [i \in Inputs |-> << >>]
    /\ completedFlags = [i \in Inputs |-> FALSE]
    /\ lastIn = [i \in Inputs |-> << >>]
    /\ sourceSeq = << >>
    /\ doneInputs = {}

\* The subject variants are not in use.
ExtInit ==
    /\ NoOperator
    /\ NoExtras
    /\ errorCalls = 0
    /\ emitted = << >>
    /\ history = << >>
    /\ bufferSize = 0
    /\ latestRef = "param"
    /\ callerVar = 1
    /\ initialValue = 1

\* =========================================================== Spec (threads)

Idle(t) == pc[t] = "idle"
CanStart(t) == Idle(t) /\ opCount < MaxOps

\* Subscriber::next, the load of the flag.
SubscriberNextLoad(t, v) ==
    /\ CanStart(t)
    /\ opCount' = opCount + 1
    /\ IF inactive[S0]
         THEN UNCHANGED << pc, arg >>
         ELSE /\ pc' = [pc EXCEPT ![t] = "next_cb"]
              /\ arg' = [arg EXCEPT ![t] = v]
    /\ UNCHANGED << inactive, running, useCount, teardownCount, log, hasHandle,
                    terminalCalls, lenAtUnsub >>
    /\ UNCHANGED subjVars

\* Subscriber::next, observer.onNext(t).
SubscriberNextCall(t) ==
    /\ pc[t] = "next_cb"
    /\ log' = Append(log, OnNext(S0, arg[t]))
    /\ pc' = [pc EXCEPT ![t] = "idle"]
    /\ UNCHANGED << inactive, running, useCount, teardownCount, arg, hasHandle,
                    opCount, terminalCalls, lenAtUnsub >>
    /\ UNCHANGED subjVars

\* A terminal call whose test of the flag does not latch it (a plain load).
TerminalLoad(t, cb) ==
    /\ CanStart(t)
    /\ opCount' = opCount + 1
    /\ terminalCalls' = terminalCalls + 1
    /\ IF inactive[S0]
         THEN UNCHANGED << pc >>
         ELSE pc' = [pc EXCEPT ![t] = cb]
    /\ UNCHANGED << inactive, running, useCount, teardownCount, log, arg, hasHandle,
                    lenAtUnsub >>
    /\ UNCHANGED subjVars

\* sharedInactiveFlag->exchange(true) of Subscriber::error / complete: the
\* flag is set, and the call goes on to the callback cb iff it was clear.
TerminalExchange(t, cb) ==
    /\ CanStart(t)
    /\ opCount' = opCount + 1
    /\ terminalCalls' = terminalCalls + 1
    /\ inactive' = [inactive EXCEPT ![S0] = TRUE]
    /\ IF inactive[S0]
         THEN UNCHANGED << pc >>
         ELSE pc' = [pc EXCEPT ![t] = cb]
    /\ UNCHANGED << running, useCount, teardownCount, log, arg, hasHandle, lenAtUnsub >>
    /\ UNCHANGED subjVars

SubscriberErrorExchange(t) == TerminalExchange(t, "error_cb")

SubscriberCompleteExchange(t) == TerminalExchange(t, "complete_cb")

\* A terminal callback that also releases the execution.
TerminalCallWithTeardown(t, at, e) ==
    /\ pc[t] = at
    /\ log' = Append(log, e)
    /\ pc' = [pc EXCEPT ![t] = "idle"]
    /\ running' = [running EXCEPT ![S0] = FALSE]
    /\ teardownCount' = [teardownCount EXCEPT ![S0] = @ + (IF running[S0] THEN 1 ELSE 0)]
    /\ UNCHANGED << inactive, useCount, arg, hasHandle, opCount, terminalCalls,
                    lenAtUnsub >>
    /\ UNCHANGED subjVars

\* observer.onError(err) / observer.onComplete(): the callback and nothing else.
TerminalCall(t, at, e) ==
    /\ pc[t] = at
    /\ log' = Append(log, e)
    /\ pc' = [pc EXCEPT ![t] = "idle"]
    /\ UNCHANGED << inactive, running, useCount, teardownCount, arg, hasHandle,
                    opCount, terminalCalls, lenAtUnsub >>
    /\ UNCHANGED subjVars

SubscriberErrorCall(t) == TerminalCall(t, "error_cb", OnError(S0))

SubscriberCompleteCall(t) == TerminalCall(t, "complete_cb", OnComplete(S0))

\* The first return of an unsubscribe() call is remembered.
NoteUnsubReturn == lenAtUnsub' = IF lenAtUnsub = -1 THEN Len(log) ELSE lenAtUnsub

\* Subscription::unsubscribe: subscriptions.clear() (no children here) and
\* running.exchange(false); the call returns at once when running was false.
UnsubscribeExchange(t) ==
    /\ CanStart(t)
    /\ hasHandle[t]
    /\ opCount' = opCount + 1
    /\ running' = [running EXCEPT ![S0] = FALSE]
    /\ IF running[S0]
         THEN /\ pc' = [pc EXCEPT ![t] = "unsub_store"]
              /\ UNCHANGED lenAtUnsub
         ELSE /\ UNCHANGED pc
              /\ NoteUnsubReturn
    /\ UNCHANGED << inactive, useCount, teardownCount, log, arg, hasHandle,
                    terminalCalls >>
    /\ UNCHANGED subjVars

\* An unsubscribe that flips the flag instead of setting it.
UnsubscribeStoreFlip(t) ==
    /\ pc[t] = "unsub_store"
    /\ inactive' = [inactive EXCEPT ![S0] = ~@]
    /\ pc' = [pc EXCEPT ![t] = "unsub_teardown"]
    /\ UNCHANGED << running, useCount, teardownCount, log, arg, hasHandle, opCount,
                    terminalCalls, lenAtUnsub >>
    /\ UNCHANGED subjVars

\* Subscription::unsubscribe: sharedExecution->subscriber.unsubscribe().
UnsubscribeStore(t) ==
    /\ pc[t] = "unsub_store"
    /\ inactive' = [inactive EXCEPT ![S0] = TRUE]
    /\ pc' = [pc EXCEPT ![t] = "unsub_teardown"]
    /\ UNCHANGED << running, useCount, teardownCount, log, arg, hasHandle, opCount,
                    terminalCalls, lenAtUnsub >>
    /\ UNCHANGED subjVars

\* Subscription::unsubscribe: sharedExecution->teardownLogic(), then return.
UnsubscribeTeardown(t) ==
    /\ pc[t] = "unsub_teardown"
    /\ teardownCount' = [teardownCount EXCEPT ![S0] = @ + 1]
    /\ pc' = [pc EXCEPT ![t] = "idle"]
    /\ NoteUnsubReturn
    /\ UNCHANGED << inactive, running, useCount, log, arg, hasHandle, opCount,
                    terminalCalls >>
    /\ UNCHANGED subjVars

\* Copy of a Subscription: the copy shares the Execution (use_count + 1).
\* Thread t hands a copy of its handle to thread u.
SubscriptionCopy(t, u) ==
    /\ CanStart(t)
    /\ Idle(u)
    /\ hasHandle[t]
    /\ ~hasHandle[u]
    /\ opCount' = opCount + 1
    /\ hasHandle' = [hasHandle EXCEPT ![u] = TRUE]
    /\ useCount' = [useCount EXCEPT ![S0] = @ + 1]
    /\ UNCHANGED << inactive, running, teardownCount, log, pc, arg, terminalCalls,
                    lenAtUnsub >>
    /\ UNCHANGED subjVars

\* ~Subscription: the test sharedExecution.use_count() == 1.
DtorUseCount(t) ==
    /\ Idle(t)
    /\ hasHandle[t]
    /\ hasHandle' = [hasHandle EXCEPT ![t] = FALSE]
    /\ pc' = [pc EXCEPT ![t] = IF useCount[S0] = 1 THEN "dtor_exchange" ELSE "dtor_release"]
    /\ UNCHANGED << inactive, running, useCount, teardownCount, log, arg, opCount,
                    terminalCalls, lenAtUnsub >>
    /\ UNCHANGED subjVars

\* ~Subscription: running.exchange(false).
DtorExchange(t) ==
    /\ pc[t] = "dtor_exchange"
    /\ running' = [running EXCEPT ![S0] = FALSE]
    /\ pc' = [pc EXCEPT ![t] = IF running[S0] THEN "dtor_store" ELSE "dtor_release"]
    /\ UNCHANGED << inactive, useCount, teardownCount, log, arg, hasHandle, opCount,
                    terminalCalls, lenAtUnsub >>
    /\ UNCHANGED subjVars

\* ~Subscription: sharedExecution->subscriber.unsubscribe().
DtorStore(t) ==
    /\ pc[t] = "dtor_store"
    /\ inactive' = [inactive EXCEPT ![S0] = TRUE]
    /\ pc' = [pc EXCEPT ![t] = "dtor_teardown"]
    /\ UNCHANGED << running, useCount, teardownCount, log, arg, hasHandle, opCount,
                    terminalCalls, lenAtUnsub >>
    /\ UNCHANGED subjVars

\* ~Subscription: sharedExecution->teardownLogic().
DtorTeardown(t) ==
    /\ pc[t] = "dtor_teardown"
    /\ teardownCount' = [teardownCount EXCEPT ![S0] = @ + 1]
    /\ pc' = [pc EXCEPT ![t] = "dtor_release"]
    /\ UNCHANGED << inactive, running, useCount, log, arg, hasHandle, opCount,
                    terminalCalls, lenAtUnsub >>
    /\ UNCHANGED subjVars

\* ~Subscription: the member sharedExecution is destroyed (use_count - 1).
DtorRelease(t) ==
    /\ pc[t] = "dtor_release"
    /\ useCount' = [useCount EXCEPT ![S0] = @ - 1]
    /\ pc' = [pc EXCEPT ![t] = "idle"]
    /\ UNCHANGED << inactive, running, teardownCount, log, arg, hasHandle, opCount,
                    terminalCalls, lenAtUnsub >>
    /\ UNCHANGED subjVars

\* Observable::subscribe has returned: one Subscriber, active; one Execution,
\* running, owned by the single handle that thread 1 holds.
Init ==
    /\ inactive = [s \in SubIds |-> FALSE]
    /\ running = [s \in SubIds |-> s = S0]
    /\ useCount = [s \in SubIds |-> IF s = S0 THEN 1 ELSE 0]
    /\ teardownCount = [s \in SubIds |-> 0]
    /\ log = << >>
    /\ subscribers = << >>
    /\ created = 1
    /\ pc = [t \in Threads |-> "idle"]
    /\ arg = [t \in Threads |-> 1]
    /\ hasHandle = [t \in Threads |-> t = 1]
    /\ opCount = 0
    /\ lastOp = [op |-> "init", val |-> 0, sub |-> 0]
    /\ released = [s \in SubIds |-> FALSE]
    /\ completeCalls = 0
    /\ terminalCalls = 0
    /\ lenAtUnsub = -1
    /\ ExtInit

Next ==
    \/ \E t \in Threads, v \in Values : SubscriberNextLoad(t, v)
    \/ \E t \in Threads : SubscriberNextCall(t)
    \/ \E t \in Threads : SubscriberErrorExchange(t)
    \/ \E t \in Threads : SubscriberErrorCall(t)
    \/ \E t \in Threads : SubscriberCompleteExchange(t)
    \/ \E t \in Threads : SubscriberCompleteCall(t)
    \/ \E t \in Threads : UnsubscribeExchange(t)
    \/ \E t \in Threads : UnsubscribeStore(t)
    \/ \E t \in Threads : UnsubscribeTeardown(t)
    \/ \E t, u \in Threads : SubscriptionCopy(t, u)
    \/ \E t \in Threads : DtorUseCount(t)
    \/ \E t \in Threads : DtorExchange(t)
    \/ \E t \in Threads : DtorStore(t)
    \/ \E t \in Threads : DtorTeardown(t)
    \/ \E t \in Threads : DtorRelease(t)

Spec == Init /\ [][Next]_vars

\* ==================================================== SpecSubject (one thread)

\* A call may start.
MayCall == opCount < MaxCalls

\* The call just started, for the formulas that speak about one call.
Call(op, v, s) ==
    /\ opCount' = opCount + 1
    /\ lastOp' = [op |-> op, val |-> v, sub |-> s]

\* A list that takes a new subscriber at its head.
addFront(list, s) == << s >> \o list

\* SubscriberManager::add: subscribers.push_back(subscriber).
add(list, s) == Append(list, s)

\* SubscriberManager::removeInactive: the try-lock succeeds (no other thread
\* holds the mutex) and every subscriber whose flag is set is removed.
removeInactive(list) == SelectSeq(list, LAMBDA s : ~inactive[s])

\* Subscriber::next on subscriber s: the callbacks it invokes.
SubscriberNext(s, v) == IF inactive[s] THEN << >> ELSE << OnNext(s, v) >>

\* Subscriber::complete on subscriber s: the callbacks it invokes (the flag
\* is set by the exchange in either case).
SubscriberComplete(s) == IF inactive[s] THEN << >> ELSE << OnComplete(s) >>

\* The loop of SubjectBase::broadcastValue over the list, front to back.
RECURSIVE broadcastValue(_, _)
broadcastValue(list, v) ==
    IF list = << >> THEN << >>
    ELSE SubscriberNext(Head(list), v) \o broadcastValue(Tail(list), v)

\* The loop of SubjectBase::broadcastCompletion over the list, front to back.
RECURSIVE broadcastCompletion(_)
broadcastCompletion(list) ==
    IF list = << >> THEN << >>
    ELSE SubscriberComplete(Head(list)) \o broadcastCompletion(Tail(list))

Range(list) == { list[i] : i \in 1..Len(list) }

\* Observable::subscribe on the Subject: a fresh Subscriber, onSubscribe
\* (sharedManager->add), and a Subscription with a running Execution.
SubjectSubscribe ==
    /\ MayCall
    /\ created < MaxSubs
    /\ LET s == created + 1 IN
         /\ created' = s
         /\ inactive' = [inactive EXCEPT ![s] = FALSE]
         /\ subscribers' = add(subscribers, s)
         /\ running' = [running EXCEPT ![s] = TRUE]
         /\ useCount' = [useCount EXCEPT ![s] = 1]
         /\ Call("subscribe", 0, s)
    /\ UNCHANGED << teardownCount, log, released, completeCalls >>
    /\ UNCHANGED threadVars

\* Subject::next: removeInactive, then the broadcast under the shared lock.
SubjectNext(v) ==
    /\ MayCall
    /\ subscribers' = removeInactive(subscribers)
    /\ log' = log \o broadcastValue(subscribers', v)
    /\ Call("next", v, 0)
    /\ UNCHANGED << inactive, running, useCount, teardownCount, created, released,
                    completeCalls >>
    /\ UNCHANGED threadVars

\* Subject::complete: removeInactive, complete() on every subscriber left
\* (each exchange sets its flag), then SubscriberManager::clear.
SubjectComplete ==
    /\ MayCall
    /\ LET pruned == removeInactive(subscribers) IN
         /\ log' = log \o broadcastCompletion(pruned)
         /\ inactive' = [s \in SubIds |-> inactive[s] \/ s \in Range(pruned)]
    /\ subscribers' = << >>
    /\ completeCalls' = completeCalls + 1
    /\ Call("complete", 0, 0)
    /\ UNCHANGED << running, useCount, teardownCount, created, released >>
    /\ UNCHANGED threadVars

\* Subscription::unsubscribe on a handle of subscription s, start to return.
SubscriptionUnsubscribe(s) ==
    /\ MayCall
    /\ useCount[s] > 0
    /\ running' = [running EXCEPT ![s] = FALSE]
    /\ inactive' = [inactive EXCEPT ![s] = @ \/ running[s]]
    /\ teardownCount' = [teardownCount EXCEPT ![s] = @ + (IF running[s] THEN 1 ELSE 0)]
    /\ released' = [released EXCEPT ![s] = TRUE]
    /\ Call("unsubscribe", 0, s)
    /\ UNCHANGED << useCount, log, subscribers, created, completeCalls >>
    /\ UNCHANGED threadVars

\* A copy of a handle of subscription s (as when a vector of Subscriptions
\* reallocates).
SubscriptionCopyOf(s) ==
    /\ MayCall
    /\ useCount[s] > 0
    /\ useCount[s] < MaxHandles
    /\ useCount' = [useCount EXCEPT ![s] = @ + 1]
    /\ Call("copy", 0, s)
    /\ UNCHANGED << inactive, running, teardownCount, log, subscribers, created,
                    released, completeCalls >>
    /\ UNCHANGED threadVars

\* A destructor that releases its reference and nothing else.
SubscriptionDestroyOnlyRelease(s) ==
    /\ MayCall
    /\ useCount[s] > 0
    /\ useCount' = [useCount EXCEPT ![s] = @ - 1]
    /\ released' = [released EXCEPT ![s] = @ \/ useCount[s] = 1]
    /\ Call("drop", 0, s)
    /\ UNCHANGED << inactive, running, teardownCount, log, subscribers, created,
                    completeCalls >>
    /\ UNCHANGED threadVars

\* ~Subscription on a handle of subscription s: the last handle of a running
\* execution unsubscribes the subscriber and runs the teardown; then the
\* reference is released.
SubscriptionDestroy(s) ==
    /\ MayCall
    /\ useCount[s] > 0
    /\ LET last == useCount[s] = 1 /\ running[s] IN
         /\ running' = [running EXCEPT ![s] = @ /\ ~last]
         /\ inactive' = [inactive EXCEPT ![s] = @ \/ last]
         /\ teardownCount' = [teardownCount EXCEPT ![s] = @ + (IF last THEN 1 ELSE 0)]
    /\ useCount' = [useCount EXCEPT ![s] = @ - 1]
    /\ released' = [released EXCEPT ![s] = @ \/ useCount[s] = 1]
    /\ Call("drop", 0, s)
    /\ UNCHANGED << log, subscribers, created, completeCalls >>
    /\ UNCHANGED threadVars

\* A Subject just constructed: no subscriber, no subscription.
InitSubject ==
    /\ inactive = [s \in SubIds |-> FALSE]
    /\ running = [s \in SubIds |-> FALSE]
    /\ useCount = [s \in SubIds |-> 0]
    /\ teardownCount = [s \in SubIds |-> 0]
    /\ log = << >>
    /\ subscribers = << >>
    /\ created = 0
    /\ pc = [t \in Threads |-> "idle"]
    /\ arg = [t \in Threads |-> 1]
    /\ hasHandle = [t \in Threads |-> FALSE]
    /\ opCount = 0
    /\ lastOp = [op |-> "init", val |-> 0, sub |-> 0]
    /\ released = [s \in SubIds |-> FALSE]
    /\ completeCalls = 0
    /\ terminalCalls = 0
    /\ lenAtUnsub = -1
    /\ ExtInit

NextSubject ==
    \/ SubjectSubscribe
    \/ \E v \in Values : SubjectNext(v)
    \/ SubjectComplete
    \/ \E s \in SubIds : SubscriptionUnsubscribe(s)
    \/ \E s \in SubIds : SubscriptionCopyOf(s)
    \/ \E s \in SubIds : SubscriptionDestroy(s)

SpecSubject == InitSubject /\ [][NextSubject]_vars

\* ========================================= SpecSubjectError (Subject::error)

\* Subscriber::error on subscriber s: the callbacks it invokes (the flag is
\* set by the exchange in either case).
SubscriberError(s) == IF inactive[s] THEN << >> ELSE << OnError(s) >>

\* The loop of SubjectBase::broadcastError, front to back, read as a loop
\* over the list of the SubscriberManager (the member it names,
\* this->subscribers, does not exist).
RECURSIVE broadcastError(_)
broadcastError(list) ==
    IF list = << >> THEN << >>
    ELSE SubscriberError(Head(list)) \o broadcastError(Tail(list))

\* Subject::error: removeInactive, error(err) on every subscriber left (each
\* exchange sets its flag). The list is not cleared.
SubjectError ==
    /\ MayCall
    /\ subscribers' = removeInactive(subscribers)
    /\ log' = log \o broadcastError(subscribers')
    /\ inactive' = [s \in SubIds |-> inactive[s] \/ s \in Range(subscribers')]
    /\ errorCalls' = errorCalls + 1
    /\ Call("error", 0, 0)
    /\ UNCHANGED << running, useCount, teardownCount, created, released, completeCalls >>
    /\ UNCHANGED << thrVars, emitted, replayVars, behaviorVars, opVars, moreVars >>

NextSubjectError ==
    \/ NextSubject
    \/ SubjectError

SpecSubjectError == InitSubject /\ [][NextSubjectError]_vars

\* =============================================== SpecReplay (ReplaySubject)

\* A subject just constructed, before any subscribe: the state of the
\* subscribers, subscriptions and calling threads.
NoSubscriber ==
    /\ inactive = [s \in SubIds |-> FALSE]
    /\ running = [s \in SubIds |-> FALSE]
    /\ useCount = [s \in SubIds |-> 0]
    /\ teardownCount = [s \in SubIds |-> 0]
    /\ log = << >>
    /\ subscribers = << >>
    /\ created = 0
    /\ pc = [t \in Threads |-> "idle"]
    /\ arg = [t \in Threads |-> 1]
    /\ hasHandle = [t \in Threads |-> FALSE]
    /\ opCount = 0
    /\ lastOp = [op |-> "init", val |-> 0, sub |-> 0]
    /\ released = [s \in SubIds |-> FALSE]
    /\ completeCalls = 0
    /\ terminalCalls = 0
    /\ lenAtUnsub = -1
    /\ errorCalls = 0
    /\ emitted = << >>

\* A replay of the buffer that starts with its newest value.
RECURSIVE replayNewestFirst(_, _)
replayNewestFirst(s, hist) ==
    IF hist = << >> THEN << >>
    ELSE replayNewestFirst(s, Tail(hist)) \o SubscriberNext(s, Head(hist))

\* The loop of ReplaySubject::createOnSubscribe: subscriber.next(value) for
\* each value of the history, front to back.
RECURSIVE replayHistory(_, _)
replayHistory(s, hist) ==
    IF hist = << >> THEN << >>
    ELSE SubscriberNext(s, Head(hist)) \o replayHistory(s, Tail(hist))

\* A buffer that evicts only once it has grown past its capacity.
pushHistoryLate(hist, cap, v) ==
    Append(IF cap # 0 /\ Len(hist) > cap THEN Tail(hist) ELSE hist, v)

\* ReplaySubject::next, the buffer: a full bounded buffer drops its oldest
\* value, then the value is pushed at the back.
pushHistory(hist, cap, v) ==
    Append(IF cap # 0 /\ Len(hist) = cap THEN Tail(hist) ELSE hist, v)

\* Observable::subscribe on the ReplaySubject: a fresh Subscriber, the replay
\* of the history, sharedManager->add, and a Subscription.
ReplaySubscribe ==
    /\ MayCall
    /\ created < MaxSubs
    /\ LET s == created + 1 IN
         /\ created' = s
         /\ inactive' = [inactive EXCEPT ![s] = FALSE]
         /\ log' = log \o replayHistory(s, history)
         /\ subscribers' = add(subscribers, s)
         /\ running' = [running EXCEPT ![s] = TRUE]
         /\ useCount' = [useCount EXCEPT ![s] = 1]
         /\ Call("subscribe", 0, s)
    /\ UNCHANGED << teardownCount, released, completeCalls >>
    /\ UNCHANGED threadVars

\* ReplaySubject::next: the broadcast, then the buffer.
ReplayNext(v) ==
    /\ MayCall
    /\ subscribers' = removeInactive(subscribers)
    /\ log' = log \o broadcastValue(subscribers', v)
    /\ history' = pushHistory(history, bufferSize, v)
    /\ emitted' = Append(emitted, v)
    /\ Call("next", v, 0)
    /\ UNCHANGED << inactive, running, useCount, teardownCount, created, released,
                    completeCalls >>
    /\ UNCHANGED << thrVars, errorCalls, bufferSize, behaviorVars, opVars, moreVars >>

\* ReplaySubject::complete is SubjectBase::broadcastCompletion.
ReplayComplete == SubjectComplete

\* A ReplaySubject just constructed, with any bufferSize.
InitReplay ==
    /\ NoSubscriber
    /\ history = << >>
    /\ bufferSize \in 0..MaxCap
    /\ latestRef = "param"
    /\ callerVar = 1
    /\ initialValue = 1
    /\ NoOperator
    /\ NoExtras

NextReplay ==
    \/ ReplaySubscribe
    \/ \E v \in Values : ReplayNext(v)
    \/ ReplayComplete
    \/ \E s \in SubIds : SubscriptionUnsubscribe(s)
    \/ \E s \in SubIds : SubscriptionDestroy(s)

SpecReplay == InitReplay /\ [][NextReplay]_vars

\* ========================================== SpecBehavior (BehaviorSubject)

\* What reading *latestValue can yield. latestValue is a
\* reference_wrapper<const T>: it holds no copy. While it refers to a live
\* variable of the caller the read yields that variable's content; once the
\* referent is gone (the constructor's parameter, a temporary argument) the
\* read is of a dangling reference and may yield any value.
Deref == IF latestRef = "var" THEN { callerVar } ELSE Values

\* Observable::subscribe on the BehaviorSubject: a fresh Subscriber,
\* subscriber.next(*latestValue), sharedManager->add, and a Subscription.
BehaviorSubscribe ==
    /\ MayCall
    /\ created < MaxSubs
    /\ LET s == created + 1 IN
         /\ created' = s
         /\ inactive' = [inactive EXCEPT ![s] = FALSE]
         /\ \E x \in Deref : log' = log \o SubscriberNext(s, x)
         /\ subscribers' = add(subscribers, s)
         /\ running' = [running EXCEPT ![s] = TRUE]
         /\ useCount' = [useCount EXCEPT ![s] = 1]
         /\ Call("subscribe", 0, s)
    /\ UNCHANGED << teardownCount, released, completeCalls >>
    /\ UNCHANGED threadVars

\* BehaviorSubject::next(value): the broadcast, then *latestValue = value,
\* which rebinds the reference_wrapper to the caller's argument: a temporary
\* (k = "temp") or a variable of the caller that stays alive (k = "var").
BehaviorNext(v, k) ==
    /\ MayCall
    /\ subscribers' = removeInactive(subscribers)
    /\ log' = log \o broadcastValue(subscribers', v)
    /\ latestRef' = k
    /\ callerVar' = IF k = "var" THEN v ELSE callerVar
    /\ emitted' = Append(emitted, v)
    /\ Call("next", v, 0)
    /\ UNCHANGED << inactive, running, useCount, teardownCount, created, released,
                    completeCalls >>
    /\ UNCHANGED << thrVars, errorCalls, replayVars, initialValue, opVars, moreVars >>

\* The caller assigns to the variable it last passed to next (as the loop
\* counter of the test is incremented between two calls).
CallerAssign(v) ==
    /\ MayCall
    /\ latestRef = "var"
    /\ callerVar # v
    /\ callerVar' = v
    /\ Call("assign", v, 0)
    /\ UNCHANGED << inactive, running, useCount, teardownCount, log, subscribers,
                    created, released, completeCalls >>
    /\ UNCHANGED << thrVars, errorCalls, emitted, replayVars, latestRef, initialValue,
                    opVars, moreVars >>

\* BehaviorSubject::complete is SubjectBase::broadcastCompletion.
BehaviorComplete == SubjectComplete

\* A BehaviorSubject just constructed with any initial value: latestValue
\* refers to the parameter of the constructor, which is gone.
InitBehavior ==
    /\ NoSubscriber
    /\ history = << >>
    /\ bufferSize = 0
    /\ latestRef = "param"
    /\ callerVar = 1
    /\ initialValue \in Values
    /\ NoOperator
    /\ NoExtras

NextBehavior ==
    \/ BehaviorSubscribe
    \/ \E v \in Values, k \in {"temp", "var"} : BehaviorNext(v, k)
    \/ \E v \in Values : CallerAssign(v)
    \/ BehaviorComplete
    \/ \E s \in SubIds : SubscriptionUnsubscribe(s)
    \/ \E s \in SubIds : SubscriptionDestroy(s)

SpecBehavior == InitBehavior /\ [][NextBehavior]_vars

\* ================= SpecBehaviorConc (BehaviorSubject, subscribe races next)
\* Every next passes a variable that stays alive and is not assigned to, so
\* that each read of *latestValue is defined. The exclusive lock of add and
\* the shared lock of the broadcast make each of them one step.

\* subscribe, first half: the Subscriber is created and receives
\* *latestValue.
BehaviorSubscribePush(t) ==
    /\ CanStart(t)
    /\ created < MaxSubs
    /\ opCount' = opCount + 1
    /\ LET s == created + 1 IN
         /\ created' = s
         /\ inactive' = [inactive EXCEPT ![s] = FALSE]
         /\ \E x \in Deref : log' = log \o SubscriberNext(s, x)
         /\ pc' = [pc EXCEPT ![t] = "subscribe_add"]
         /\ arg' = [arg EXCEPT ![t] = s]
    /\ UNCHANGED << running, useCount, teardownCount, subscribers, hasHandle, lastOp,
                    released, completeCalls, terminalCalls, lenAtUnsub, extVars >>

\* subscribe, second half: sharedManager->add(subscriber), then the
\* Subscription is made and returned.
BehaviorSubscribeAdd(t) ==
    /\ pc[t] = "subscribe_add"
    /\ subscribers' = add(subscribers, arg[t])
    /\ running' = [running EXCEPT ![arg[t]] = TRUE]
    /\ useCount' = [useCount EXCEPT ![arg[t]] = 1]
    /\ pc' = [pc EXCEPT ![t] = "idle"]
    /\ UNCHANGED << inactive, teardownCount, log, created, arg, hasHandle, opCount,
                    lastOp, released, completeCalls, terminalCalls, lenAtUnsub, extVars >>

\* next, first half: this->broadcastValue(value).
BehaviorNextBroadcast(t, v) ==
    /\ CanStart(t)
    /\ opCount' = opCount + 1
    /\ subscribers' = removeInactive(subscribers)
    /\ log' = log \o broadcastValue(subscribers', v)
    /\ emitted' = Append(emitted, v)
    /\ pc' = [pc EXCEPT ![t] = "next_store"]
    /\ arg' = [arg EXCEPT ![t] = v]
    /\ UNCHANGED << inactive, running, useCount, teardownCount, created, hasHandle,
                    lastOp, released, completeCalls, terminalCalls, lenAtUnsub,
                    errorCalls, replayVars, behaviorVars, opVars, moreVars >>

\* next, second half: *this->latestValue = value.
BehaviorNextStore(t) ==
    /\ pc[t] = "next_store"
    /\ latestRef' = "var"
    /\ callerVar' = arg[t]
    /\ pc' = [pc EXCEPT ![t] = "idle"]
    /\ UNCHANGED << inactive, running, useCount, teardownCount, log, subscribers,
                    created, arg, hasHandle, opCount, lastOp, released, completeCalls,
                    terminalCalls, lenAtUnsub, errorCalls, emitted, replayVars,
                    initialValue, opVars, moreVars >>

\* A BehaviorSubject on which next(x) was called once, x a live variable.
InitBehaviorConc ==
    /\ inactive = [s \in SubIds |-> FALSE]
    /\ running = [s \in SubIds |-> FALSE]
    /\ useCount = [s \in SubIds |-> 0]
    /\ teardownCount = [s \in SubIds |-> 0]
    /\ log = << >>
    /\ subscribers = << >>
    /\ created = 0
    /\ pc = [t \in Threads |-> "idle"]
    /\ arg = [t \in Threads |-> 1]
    /\ hasHandle = [t \in Threads |-> FALSE]
    /\ opCount = 0
    /\ lastOp = [op |-> "init", val |-> 0, sub |-> 0]
    /\ released = [s \in SubIds |-> FALSE]
    /\ completeCalls = 0
    /\ terminalCalls = 0
    /\ lenAtUnsub = -1
    /\ errorCalls = 0
    /\ history = << >>
    /\ bufferSize = 0
    /\ initialValue \in Values
    /\ NoOperator
    /\ NoExtras
    /\ \E x \in Values :
         /\ emitted = << x >>
         /\ latestRef = "var"
         /\ callerVar = x

NextBehaviorConc ==
    \/ \E t \in Threads : BehaviorSubscribePush(t)
    \/ \E t \in Threads : BehaviorSubscribeAdd(t)
    \/ \E t \in Threads, v \in Values : BehaviorNextBroadcast(t, v)
    \/ \E t \in Threads : BehaviorNextStore(t)

SpecBehaviorConc == InitBehaviorConc /\ [][NextBehaviorConc]_vars

\* ------------------------------------------------ operators piped on a Subject

\* The operators of operator.hpp that take one downstream subscriber.
OpKinds == {"map", "distinct", "distinctUntilChanged", "combineLatest",
            "withLatestFrom"}

\* The Subscriber that Observable::subscribe makes for the downstream
\* observer, and the one it makes for the intermediate observer on input i.
Downstream == 1
Intermediate(i) == 2 + i

\* The function handed to map in the tests.
mapFunc(v) == v * 2

\* The Subscribers owned by a shared_ptr. Observable::subscribe builds its
\* Subscriber as a local object, and SubscriberFactory::create, the one
\* make_shared of a Subscriber, is called nowhere.
sharedOwned == {}

\* enable_shared_from_this::shared_from_this on Subscriber s.
sharedFromThis(s) == IF s \in sharedOwned THEN "ok" ELSE "bad_weak_ptr"

\* The inputs the operator subscribes to.
InputsOf(kind) ==
    IF kind \in {"combineLatest", "withLatestFrom"} THEN Inputs ELSE {0}

\* The subscriber list of input i.
InputList(i) == IF i = 0 THEN subscribers ELSE otherSubscribers

\* Observable::subscribe on the operator's output: a local Subscriber, then
\* the operator's onSubscribe. Its first statement captures
\* subscriber.shared_from_this(); when that throws, nothing has been
\* subscribed upstream and no Subscription is returned. Otherwise the
\* intermediate observers are subscribed, the source first, and the
\* Subscription holds the teardown.
PipeSubscribe ==
    /\ MayCall
    /\ created = 0
    /\ IF sharedFromThis(Downstream) = "bad_weak_ptr"
       THEN /\ threw' = TRUE
            /\ created' = 1
            /\ UNCHANGED << subscribers, otherSubscribers, running, useCount >>
       ELSE /\ threw' = FALSE
            /\ created' = 1 + Cardinality(InputsOf(opKind))
            /\ subscribers' = add(subscribers, Intermediate(0))
            /\ otherSubscribers' = IF 1 \in InputsOf(opKind)
                                   THEN add(otherSubscribers, Intermediate(1))
                                   ELSE otherSubscribers
            /\ running' = [s \in SubIds |->
                             IF s <= 1 + Cardinality(InputsOf(opKind)) THEN TRUE
                             ELSE running[s]]
            /\ useCount' = [s \in SubIds |->
                              IF s <= 1 + Cardinality(InputsOf(opKind)) THEN 1
                              ELSE useCount[s]]
    /\ Call("subscribe", 0, Downstream)
    /\ UNCHANGED << inactive, teardownCount, log, released, completeCalls >>
    /\ UNCHANGED << thrVars, errorCalls, emitted, replayVars, behaviorVars, moreVars >>
    /\ UNCHANGED << opKind, seen, lastValue, latestValues, completedFlags, lastIn,
                    sourceSeq, doneInputs, stateAtNext >>

\* latestValues after the intermediate observer of input i stored v.
StoreLatest(i, v) == [latestValues EXCEPT ![i] = << v >>]

\* The onNext of the intermediate observer on input i: the callbacks it
\* causes downstream.
IntermediateOnNext(i, v) ==
    CASE opKind = "map" -> SubscriberNext(Downstream, mapFunc(v))
      [] opKind = "distinct" ->
           IF v \in seen THEN << >> ELSE SubscriberNext(Downstream, v)
      [] opKind = "distinctUntilChanged" ->
           IF lastValue = << >> \/ lastValue[1] # v
           THEN SubscriberNext(Downstream, v) ELSE << >>
      [] opKind = "combineLatest" ->
           IF \A j \in Inputs : StoreLatest(i, v)[j] # << >>
           THEN SubscriberNext(Downstream,
                               << StoreLatest(i, v)[0][1], StoreLatest(i, v)[1][1] >>)
           ELSE << >>
      [] opKind = "withLatestFrom" ->
           IF i = 0 /\ latestValues[1] # << >>
           THEN SubscriberNext(Downstream, << v, latestValues[1][1] >>)
           ELSE << >>

\* The operator's state at the moment the onNext of the intermediate
\* observer on input i calls the downstream next: distinct has emplaced v
\* (line 49) and combineLatest has stored v (line 156) before the call;
\* distinctUntilChanged assigns lastValue (line 94) after the call (line 93);
\* withLatestFrom's combinedObserver stores nothing.
StateAtCall(i, v) ==
    [seen |-> IF opKind = "distinct" THEN seen \cup {v} ELSE seen,
     lastValue |-> lastValue,
     latestValues |-> IF opKind = "combineLatest" THEN StoreLatest(i, v)
                      ELSE latestValues]

\* next(v) on the Subject of input i: removeInactive, then Subscriber::next
\* on the intermediate subscriber if it is registered, which runs the
\* operator's onNext.
PipeNext(i, v) ==
    /\ MayCall
    /\ i \in InputsOf(opKind)
    /\ LET pruned == removeInactive(InputList(i)) IN
         /\ subscribers' = IF i = 0 THEN pruned ELSE subscribers
         /\ otherSubscribers' = IF i = 1 THEN pruned ELSE otherSubscribers
         /\ IF pruned # << >>
            THEN /\ log' = log \o IntermediateOnNext(i, v)
                 /\ stateAtNext' = IF IntermediateOnNext(i, v) # << >>
                                   THEN StateAtCall(i, v) ELSE stateAtNext
                 /\ seen' = IF opKind = "distinct" THEN seen \cup {v} ELSE seen
                 /\ lastValue' = IF opKind = "distinctUntilChanged"
                                 THEN << v >> ELSE lastValue
                 /\ latestValues' =
                      IF \/ opKind = "combineLatest"
                         \/ (opKind = "withLatestFrom" /\ i = 1)
                      THEN StoreLatest(i, v) ELSE latestValues
            ELSE UNCHANGED << log, seen, lastValue, latestValues, stateAtNext >>
    /\ emitted' = IF i = 0 THEN Append(emitted, v) ELSE emitted
    /\ lastIn' = IF created >= 1 THEN [lastIn EXCEPT ![i] = << v >>] ELSE lastIn
    /\ sourceSeq' = IF i = 0 /\ created >= 1 /\ 0 \notin doneInputs
                    THEN Append(sourceSeq, v) ELSE sourceSeq
    /\ Call("next", v, i)
    /\ UNCHANGED << inactive, running, useCount, teardownCount, created, released,
                    completeCalls >>
    /\ UNCHANGED << thrVars, errorCalls, replayVars, behaviorVars, moreVars >>
    /\ UNCHANGED << opKind, threw, completedFlags, doneInputs >>

\* completedFlags after the intermediate observer of input i completed.
SetCompleted(i) == [completedFlags EXCEPT ![i] = TRUE]

\* The onComplete of the intermediate observer on input i completes the
\* downstream subscriber: always for the one-input operators, for
\* combineLatest (completeIfReady) once every flag is set, and for
\* withLatestFrom on the source only (the observers of the others are built
\* without an onComplete).
CompletesDownstream(i) ==
    CASE opKind = "combineLatest" -> \A j \in Inputs : SetCompleted(i)[j]
      [] opKind = "withLatestFrom" -> i = 0
      [] OTHER -> TRUE

\* complete() on the Subject of input i: removeInactive, Subscriber::complete
\* on the intermediate subscriber if it is registered, then clear.
PipeComplete(i) ==
    /\ MayCall
    /\ i \in InputsOf(opKind)
    /\ LET pruned == removeInactive(InputList(i))
           reached == pruned # << >>
           down == reached /\ CompletesDownstream(i) IN
         /\ log' = IF down THEN log \o SubscriberComplete(Downstream) ELSE log
         /\ inactive' = [s \in SubIds |->
                           \/ inactive[s]
                           \/ s \in Range(pruned)
                           \/ (down /\ s = Downstream)]
         /\ completedFlags' = IF reached /\ opKind = "combineLatest"
                              THEN SetCompleted(i) ELSE completedFlags
    /\ subscribers' = IF i = 0 THEN << >> ELSE subscribers
    /\ otherSubscribers' = IF i = 1 THEN << >> ELSE otherSubscribers
    /\ completeCalls' = completeCalls + 1
    /\ doneInputs' = IF created >= 1 THEN doneInputs \cup {i} ELSE doneInputs
    /\ Call("complete", 0, i)
    /\ UNCHANGED << running, useCount, teardownCount, created, released >>
    /\ UNCHANGED << thrVars, errorCalls, emitted, replayVars, behaviorVars, moreVars >>
    /\ UNCHANGED << opKind, threw, seen, lastValue, latestValues, lastIn, sourceSeq,
                    stateAtNext >>

\* error(e) on the Subject of input i, as the loop of broadcastError spells
\* it out: removeInactive, then Subscriber::error on the intermediate
\* subscriber if it is registered. Every operator's onError forwards the
\* error to the downstream subscriber and does nothing else; the list is not
\* cleared.
PipeError(i) ==
    /\ MayCall
    /\ i \in InputsOf(opKind)
    /\ LET pruned == removeInactive(InputList(i))
           reached == pruned # << >> IN
         /\ subscribers' = IF i = 0 THEN pruned ELSE subscribers
         /\ otherSubscribers' = IF i = 1 THEN pruned ELSE otherSubscribers
         /\ log' = IF reached THEN log \o SubscriberError(Downstream) ELSE log
         /\ inactive' = [s \in SubIds |->
                           \/ inactive[s]
                           \/ s \in Range(pruned)
                           \/ (reached /\ s = Downstream)]
    /\ errorCalls' = errorCalls + 1
    /\ doneInputs' = IF created >= 1 THEN doneInputs \cup {i} ELSE doneInputs
    /\ Call("error", 0, i)
    /\ UNCHANGED << running, useCount, teardownCount, created, released,
                    completeCalls >>
    /\ UNCHANGED << thrVars, emitted, replayVars, behaviorVars, moreVars >>
    /\ UNCHANGED << opKind, threw, seen, lastValue, latestValues, completedFlags,
                    lastIn, sourceSeq, stateAtNext >>

\* A Subject (two for combineLatest and withLatestFrom) with one operator
\* piped onto it and no subscriber yet.
InitOperator ==
    /\ NoSubscriber
    /\ history = << >>
    /\ bufferSize = 0
    /\ latestRef = "param"
    /\ callerVar = 1
    /\ initialValue = 1
    /\ NoExtras
    /\ opKind \in OpKinds
    /\ stateAtNext = FreshState
    /\ otherSubscribers = << >>
    /\ threw = FALSE
    /\ seen = {}
    /\ lastValue = << >>
    /\ latestValues = [i \in Inputs |-> << >>]
    /\ completedFlags = [i \in Inputs |-> FALSE]
    /\ lastIn = [i \in Inputs |-> << >>]
    /\ sourceSeq = << >>
    /\ doneInputs = {}

NextOperator ==
    \/ PipeSubscribe
    \/ \E i \in Inputs, v \in Values : PipeNext(i, v)
    \/ \E i \in Inputs : PipeComplete(i)
    \/ \E i \in Inputs : PipeError(i)

SpecOperator == InitOperator /\ [][NextOperator]_vars

\* ----------------------------------------- Observable::from and pipes on it

\* The vectors handed to Observable::from.
Vectors == UNION { [1..n -> Values] : n \in 0..MaxFrom }

\* What is subscribed to: the Observable made by from ("none") or the output
\* of an operator piped onto it; the other input of withLatestFrom is the
\* source itself, source.pipe(withLatestFrom(source)).
ColdKinds == {"none", "map", "distinct", "distinctUntilChanged", "withLatestFrom"}

\* An onSubscribe whose vector is used up by the first subscription.
fromOnSubscribeOnce(s, values) ==
    IF s = 1 THEN [i \in 1..Len(values) |-> OnNext(s, values[i])] \o << OnComplete(s) >>
    ELSE << OnComplete(s) >>

\* The onSubscribe of Observable::from on the fresh Subscriber s: next for
\* every element of the captured vector, in order, then complete.
fromOnSubscribe(s, values) ==
    [i \in 1..Len(values) |-> OnNext(s, values[i])] \o << OnComplete(s) >>

\* The onNext of distinct's intermediate observer over a sequence of values,
\* starting with the set seenSet.
RECURSIVE distinctOver(_, _)
distinctOver(values, seenSet) ==
    IF values = << >> THEN << >>
    ELSE IF Head(values) \in seenSet THEN distinctOver(Tail(values), seenSet)
    ELSE << Head(values) >> \o distinctOver(Tail(values), seenSet \cup {Head(values)})

\* The onNext of distinctUntilChanged's intermediate observer over a
\* sequence of values, starting with the optional last.
RECURSIVE untilChangedOver(_, _)
untilChangedOver(values, last) ==
    IF values = << >> THEN << >>
    ELSE IF last # << >> /\ last[1] = Head(values)
         THEN untilChangedOver(Tail(values), last)
    ELSE << Head(values) >> \o untilChangedOver(Tail(values), << Head(values) >>)

\* The onNext of withLatestFrom's observer of the other input over a
\* sequence of values, starting with the optional latest: what the optional
\* holds afterwards.
RECURSIVE latestAfter(_, _)
latestAfter(values, latest) ==
    IF values = << >> THEN latest
    ELSE latestAfter(Tail(values), << Head(values) >>)

\* The onNext of withLatestFrom's combinedObserver over a sequence of
\* values while the optional of the other input holds latest.
sampleOver(values, latest) ==
    IF latest = << >> THEN << >>
    ELSE [i \in 1..Len(values) |-> << values[i], latest[1] >>]

\* What the intermediate observer of an operator forwards when its source
\* is from(values); the operator's state is created inside onSubscribe, so
\* it starts empty at every subscribe.
Forwarded(kind, values) ==
    CASE kind = "map" -> [i \in 1..Len(values) |-> mapFunc(values[i])]
      [] kind = "distinct" -> distinctOver(values, {})
      [] kind = "distinctUntilChanged" -> untilChangedOver(values, << >>)
      [] kind = "withLatestFrom" -> sampleOver(values, latestAfter(values, << >>))

\* Observable::subscribe on from(values) or on an operator piped onto it: a
\* fresh Subscriber, then onSubscribe, which emits synchronously, then the
\* Subscription. An operator's onSubscribe first captures
\* subscriber.shared_from_this(); when that throws, nothing is emitted and
\* no Subscription is returned. (The intermediate Subscriber of an operator
\* has completed when subscribe returns and gets no identifier.)
ColdSubscribe ==
    /\ MayCall
    /\ created < MaxSubs
    /\ LET s == created + 1
           ran == opKind = "none" \/ sharedFromThis(s) = "ok" IN
         /\ created' = s
         /\ threw' = (threw \/ ~ran)
         /\ log' = IF opKind = "none" THEN log \o fromOnSubscribe(s, fromValues)
                   ELSE IF ran
                        THEN log \o fromOnSubscribe(s, Forwarded(opKind, fromValues))
                        ELSE log
         /\ inactive' = [inactive EXCEPT ![s] = ran]
         /\ running' = [running EXCEPT ![s] = ran]
         /\ useCount' = [useCount EXCEPT ![s] = IF ran THEN 1 ELSE 0]
         /\ Call("subscribe", 0, s)
    /\ UNCHANGED << teardownCount, subscribers, released, completeCalls >>
    /\ UNCHANGED << thrVars, errorCalls, emitted, replayVars, behaviorVars, moreVars >>
    /\ UNCHANGED << opKind, otherSubscribers, seen, lastValue, latestValues,
                    completedFlags, lastIn, sourceSeq, doneInputs, stateAtNext >>

\* An Observable made by from, possibly with one operator piped onto it,
\* and no subscription yet.
InitCold ==
    /\ NoSubscriber
    /\ history = << >>
    /\ bufferSize = 0
    /\ latestRef = "param"
    /\ callerVar = 1
    /\ initialValue = 1
    /\ opKind \in ColdKinds
    /\ stateAtNext = FreshState
    /\ otherSubscribers = << >>
    /\ threw = FALSE
    /\ seen = {}
    /\ lastValue = << >>
    /\ latestValues = [i \in Inputs |-> << >>]
    /\ completedFlags = [i \in Inputs |-> FALSE]
    /\ lastIn = [i \in Inputs |-> << >>]
    /\ sourceSeq = << >>
    /\ doneInputs = {}
    /\ NoSync
    /\ fromValues \in Vectors
    /\ subscriptions = << >>
    /\ stopFlag = FALSE
    /\ capture = "none"

NextCold ==
    \/ ColdSubscribe
    \/ \E s \in SubIds : SubscriptionUnsubscribe(s)
    \/ \E s \in SubIds : SubscriptionDestroy(s)

SpecCold == InitCold /\ [][NextCold]_vars

\* ------------------------------------------------- a parent Subscription

\* The ways a caller hands a child to add(Subscription&&): as the temporary
\* that subscribe returned, or as a named handle under std::move.
AddWays == {"temporary", "named"}

\* The handles of subscription s outside the parent's vector.
CallerHandles(s) == useCount[s] - (IF s \in Range(subscriptions) THEN 1 ELSE 0)

\* Subscription::add on an empty parent: subscriptions.push_back(
\* std::move(subscription)). Subscription declares a destructor and no move
\* constructor, so the element is a copy and the argument keeps its
\* reference: a temporary releases it at the end of the statement (it is not
\* the only handle then, so its destructor disposes of nothing), a named
\* handle stays with the caller.
ParentAdd(s, way) ==
    /\ MayCall
    /\ CallerHandles(s) > 0
    /\ s \notin Range(subscriptions)
    /\ way = "named" => useCount[s] < MaxHandles
    /\ subscriptions' = Append(subscriptions, s)
    /\ useCount' = [useCount EXCEPT ![s] = IF way = "named" THEN @ + 1 ELSE @]
    /\ Call("add", 0, s)
    /\ UNCHANGED << inactive, running, teardownCount, log, subscribers, created,
                    released, completeCalls >>
    /\ UNCHANGED << thrVars, errorCalls, emitted, replayVars, behaviorVars, opVars >>
    /\ UNCHANGED << fromValues, stopFlag, capture, syncVars >>

\* The child handle in the parent's vector is the only handle of a running
\* execution, so its destructor disposes of the child.
LastAndRunning(s) == s \in Range(subscriptions) /\ useCount[s] = 1 /\ running[s]

\* Subscription::unsubscribe on the empty parent: subscriptions.clear()
\* destroys every child handle in the vector (~Subscription on each); the
\* parent has no Execution of its own.
ParentUnsubscribe ==
    /\ MayCall
    /\ running' = [s \in SubIds |-> running[s] /\ ~LastAndRunning(s)]
    /\ inactive' = [s \in SubIds |-> inactive[s] \/ LastAndRunning(s)]
    /\ teardownCount' = [s \in SubIds |->
                           teardownCount[s] + (IF LastAndRunning(s) THEN 1 ELSE 0)]
    /\ useCount' = [s \in SubIds |->
                      IF s \in Range(subscriptions) THEN useCount[s] - 1 ELSE useCount[s]]
    /\ released' = [s \in SubIds |->
                      released[s] \/ (s \in Range(subscriptions) /\ useCount[s] = 1)]
    /\ subscriptions' = << >>
    /\ Call("unsubscribe", 0, 0)
    /\ UNCHANGED << log, subscribers, created, completeCalls >>
    /\ UNCHANGED << thrVars, errorCalls, emitted, replayVars, behaviorVars, opVars >>
    /\ UNCHANGED << fromValues, stopFlag, capture, syncVars >>

\* unsubscribe() on a handle of the child that the caller holds.
ChildUnsubscribe(s) == CallerHandles(s) > 0 /\ SubscriptionUnsubscribe(s)

\* The drop of a handle of the child that the caller holds.
ChildDestroy(s) == CallerHandles(s) > 0 /\ SubscriptionDestroy(s)

NextParent ==
    \/ SubjectSubscribe
    \/ \E v \in Values : SubjectNext(v)
    \/ \E s \in SubIds, way \in AddWays : ParentAdd(s, way)
    \/ ParentUnsubscribe
    \/ \E s \in SubIds : ChildUnsubscribe(s)
    \/ \E s \in SubIds : ChildDestroy(s)

\* A Subject without subscribers and an empty parent Subscription.
SpecParent == InitSubject /\ [][NextParent]_vars

\* ------------------------- a Subscription with children and an execution

\* The Subscription that takes the children: the one the first subscribe
\* returned. Its caller keeps it in one handle and makes no call on the
\* handles of the children.
ParentSub == 1

\* Subscription::add on the handle of the parent.
OwnerAdd(s, way) ==
    /\ s # ParentSub
    /\ useCount[ParentSub] > 0
    /\ ParentAdd(s, way)

\* The children whose handle in the vector is the last one of a running
\* execution, in the order of the vector: the destruction of the vector's
\* elements runs their teardowns in this order.
DisposedChildren == SelectSeq(subscriptions, LAMBDA s : LastAndRunning(s))

\* The parent's own execution, when the exchange on running finds it set.
DisposedParent == IF running[ParentSub] THEN << ParentSub >> ELSE << >>

\* What the release of the parent's handle does to the executions: every
\* child handle of the vector is destroyed and the parent's execution is
\* disposed of.
OwnerRelease ==
    LET gone(s) == LastAndRunning(s) \/ (s = ParentSub /\ running[s]) IN
      /\ running' = [s \in SubIds |-> running[s] /\ ~gone(s)]
      /\ inactive' = [s \in SubIds |-> inactive[s] \/ gone(s)]
      /\ teardownCount' = [s \in SubIds |->
                             teardownCount[s] + (IF gone(s) THEN 1 ELSE 0)]
      /\ subscriptions' = << >>
      /\ UNCHANGED << log, subscribers, created, completeCalls >>
      /\ UNCHANGED << thrVars, errorCalls, emitted, replayVars, behaviorVars, opVars >>
      /\ UNCHANGED << fromValues, stopFlag, capture, sharedLocks, cursor, startLen >>

\* Subscription::unsubscribe on the parent: subscriptions.clear() destroys
\* the child handles first, then the exchange on running, the subscriber's
\* unsubscribe and the parent's teardownLogic.
OwnerUnsubscribe ==
    /\ MayCall
    /\ useCount[ParentSub] > 0
    /\ OwnerRelease
    /\ teardownOrder' = teardownOrder \o DisposedChildren \o DisposedParent
    /\ useCount' = [s \in SubIds |->
                      IF s \in Range(subscriptions) THEN useCount[s] - 1 ELSE useCount[s]]
    /\ released' = [s \in SubIds |->
                      released[s] \/ s = ParentSub
                        \/ (s \in Range(subscriptions) /\ useCount[s] = 1)]
    /\ Call("unsubscribe", 0, ParentSub)

\* ~Subscription on the parent's only handle: the body of the destructor
\* runs the exchange on running, the subscriber's unsubscribe and the
\* parent's teardownLogic; the members are destroyed after the body, the
\* vector of children among them.
OwnerDestroy ==
    /\ MayCall
    /\ useCount[ParentSub] > 0
    /\ OwnerRelease
    /\ teardownOrder' = teardownOrder \o DisposedParent \o DisposedChildren
    /\ useCount' = [s \in SubIds |->
                      IF s = ParentSub THEN 0
                      ELSE IF s \in Range(subscriptions) THEN useCount[s] - 1
                      ELSE useCount[s]]
    /\ released' = [s \in SubIds |->
                      released[s] \/ s = ParentSub
                        \/ (s \in Range(subscriptions) /\ useCount[s] = 1)]
    /\ Call("drop", 0, ParentSub)

NextOwner ==
    \/ SubjectSubscribe
    \/ \E v \in Values : SubjectNext(v)
    \/ \E s \in SubIds, way \in AddWays : OwnerAdd(s, way)
    \/ OwnerUnsubscribe
    \/ OwnerDestroy

\* A Subject without subscribers; the first Subscription it returns becomes
\* the parent of the later ones.
SpecOwner == InitSubject /\ [][NextOwner]_vars

\* ------------------------------------- an Observable with a producer thread

\* The thread that onSubscribe starts, and the thread that subscribes and
\* unsubscribes.
Producer == 1
Consumer == 2

\* How the producer thread's closure gets the Subscriber: by
\* subscriber.shared_from_this(), or by a copy of the Subscriber (its copies
\* share the inactive flag).
Captures == {"shared_from_this", "copy"}

\* Observable::subscribe on the custom Observable: a local Subscriber, then
\* onSubscribe, which makes the stop flag and starts the thread, then the
\* Subscription with the teardown that sets the flag. When the closure
\* captures subscriber.shared_from_this(), the capture throws: no thread is
\* started and no Subscription is returned.
ProducerSubscribe ==
    /\ Idle(Consumer)
    /\ created = 0
    /\ created' = 1
    /\ stopFlag' = FALSE
    /\ IF capture = "shared_from_this" /\ sharedFromThis(S0) = "bad_weak_ptr"
       THEN /\ threw' = TRUE
            /\ UNCHANGED << pc, running, useCount, hasHandle >>
       ELSE /\ threw' = FALSE
            /\ pc' = [pc EXCEPT ![Producer] = "check"]
            /\ running' = [running EXCEPT ![S0] = TRUE]
            /\ useCount' = [useCount EXCEPT ![S0] = 1]
            /\ hasHandle' = [hasHandle EXCEPT ![Consumer] = TRUE]
    /\ UNCHANGED << inactive, teardownCount, log, subscribers, arg, opCount, lastOp,
                    released, completeCalls, terminalCalls, lenAtUnsub >>
    /\ UNCHANGED << errorCalls, emitted, replayVars, behaviorVars >>
    /\ UNCHANGED << opKind, otherSubscribers, seen, lastValue, latestValues,
                    completedFlags, lastIn, sourceSeq, doneInputs, stateAtNext >>
    /\ UNCHANGED << fromValues, subscriptions, capture, syncVars >>

\* What a step of the producer thread leaves alone.
ProducerFrame ==
    /\ UNCHANGED << inactive, running, useCount, teardownCount, subscribers, created,
                    arg, hasHandle, opCount, lastOp, released, completeCalls,
                    terminalCalls, lenAtUnsub >>
    /\ UNCHANGED extVars

\* The producer's loop test, while (!stopFlag->load()).
ProducerCheck ==
    /\ pc[Producer] = "check"
    /\ stopFlag \/ Len(log) < MaxOps
    /\ pc' = [pc EXCEPT ![Producer] = IF stopFlag THEN "exited" ELSE "next_load"]
    /\ UNCHANGED log
    /\ ProducerFrame

\* Subscriber::next in the producer thread, the load of the flag.
ProducerNextLoad ==
    /\ pc[Producer] = "next_load"
    /\ pc' = [pc EXCEPT ![Producer] = IF inactive[S0] THEN "check" ELSE "next_cb"]
    /\ UNCHANGED log
    /\ ProducerFrame

\* Subscriber::next in the producer thread, observer.onNext; then the sleep
\* and the next round of the loop.
ProducerNextCall ==
    /\ pc[Producer] = "next_cb"
    /\ log' = Append(log, OnNext(S0, 1))
    /\ pc' = [pc EXCEPT ![Producer] = "check"]
    /\ ProducerFrame

\* Subscription::unsubscribe in the consumer: teardownLogic(), which is
\* stopFlag->store(true), then return.
ConsumerTeardown ==
    /\ pc[Consumer] = "unsub_teardown"
    /\ stopFlag' = TRUE
    /\ teardownCount' = [teardownCount EXCEPT ![S0] = @ + 1]
    /\ pc' = [pc EXCEPT ![Consumer] = "idle"]
    /\ NoteUnsubReturn
    /\ UNCHANGED << inactive, running, useCount, log, subscribers, created, arg,
                    hasHandle, opCount, lastOp, released, completeCalls,
                    terminalCalls >>
    /\ UNCHANGED << errorCalls, emitted, replayVars, behaviorVars, opVars >>
    /\ UNCHANGED << fromValues, subscriptions, capture, syncVars >>

\* The custom Observable before subscribe.
InitProducer ==
    /\ NoSubscriber
    /\ history = << >>
    /\ bufferSize = 0
    /\ latestRef = "param"
    /\ callerVar = 1
    /\ initialValue = 1
    /\ NoOperator
    /\ fromValues = << >>
    /\ subscriptions = << >>
    /\ stopFlag = FALSE
    /\ capture \in Captures
    /\ NoSync

ProducerStep == ProducerCheck \/ ProducerNextLoad \/ ProducerNextCall

NextProducer ==
    \/ ProducerSubscribe
    \/ ProducerCheck
    \/ ProducerNextLoad
    \/ ProducerNextCall
    \/ UnsubscribeExchange(Consumer)
    \/ UnsubscribeStore(Consumer)
    \/ ConsumerTeardown

\* The scheduler lets the producer thread take its next step eventually.
SpecProducer == InitProducer /\ [][NextProducer]_vars /\ WF_vars(ProducerStep)

\* ------------------------------ the Subject and the lock of its list

\* The thread that calls next and complete on the Subject, and the thread
\* that subscribes to it meanwhile.
Emitter == 1
Joiner == 2

\* What an observer's onNext does besides taking the value: nothing, or a
\* call of unsubscribe on its own Subscription, of subscribe on the same
\* Subject, or of complete on the same Subject.
Reactions == {"none", "unsubscribe", "subscribe", "complete"}

\* std::unique_lock on SubscriberManager::mutex can be taken: no thread
\* holds a shared lock (a unique lock is never held across two steps).
UniqueFree == \A u \in Threads : sharedLocks[u] = 0

\* The threads waiting inside SubscriberManager::add.
Adding == { u \in Threads : pc[u] = "add" }

\* A further Subscriber can be made.
MaySubscribe == created + Cardinality(Adding) < MaxSubs

\* What no step on the Subject and its lock changes.
LockFrame ==
    UNCHANGED << hasHandle, terminalCalls, lenAtUnsub, errorCalls, emitted,
                 replayVars, behaviorVars, opVars, fromValues, subscriptions,
                 stopFlag, capture, teardownOrder >>

\* Observable::subscribe called by thread t: the Subscriber is made and
\* onSubscribe enters SubscriberManager::add, where the thread asks for the
\* unique lock.
LockSubscribeCall(t) ==
    /\ t = Joiner
    /\ Idle(t)
    /\ MayCall
    /\ MaySubscribe
    /\ pc' = [pc EXCEPT ![t] = "add"]
    /\ Call("subscribe", 0, 0)
    /\ UNCHANGED << inactive, running, useCount, teardownCount, log, subscribers,
                    created, arg, released, completeCalls, sharedLocks, cursor,
                    startLen >>
    /\ LockFrame

\* SubscriberManager::add gets the unique lock and pushes the Subscriber;
\* subscribe returns the Subscription. A thread that holds a shared lock
\* itself never gets here.
LockAdd(t) ==
    /\ pc[t] = "add"
    /\ UniqueFree
    /\ LET s == created + 1 IN
         /\ created' = s
         /\ inactive' = [inactive EXCEPT ![s] = FALSE]
         /\ subscribers' = add(subscribers, s)
         /\ running' = [running EXCEPT ![s] = TRUE]
         /\ useCount' = [useCount EXCEPT ![s] = 1]
    /\ pc' = [pc EXCEPT ![t] = "idle"]
    /\ UNCHANGED << teardownCount, log, arg, opCount, lastOp, released,
                    completeCalls, sharedLocks, cursor, startLen >>
    /\ LockFrame

\* SubscriberManager::removeInactive as thread t runs it: the try-lock
\* fails, and nothing is removed, while any thread holds a shared lock.
tryRemoveInactive == IF UniqueFree THEN removeInactive(subscribers) ELSE subscribers

\* Subject::next(v) called by thread t: removeInactive, then read takes the
\* shared lock and the loop starts.
LockNextCall(t, v) ==
    /\ t = Emitter
    /\ Idle(t)
    /\ MayCall
    /\ subscribers' = tryRemoveInactive
    /\ sharedLocks' = [sharedLocks EXCEPT ![t] = @ + 1]
    /\ cursor' = [cursor EXCEPT ![t] = 1]
    /\ startLen' = [startLen EXCEPT ![t] = Len(log)]
    /\ arg' = [arg EXCEPT ![t] = v]
    /\ pc' = [pc EXCEPT ![t] = "next_read"]
    /\ Call("next", v, 0)
    /\ UNCHANGED << inactive, running, useCount, teardownCount, log, created,
                    released, completeCalls >>
    /\ LockFrame

\* Subject::complete called by thread t: removeInactive, then read takes
\* the shared lock and the loop starts.
LockCompleteCall(t) ==
    /\ t = Emitter
    /\ Idle(t)
    /\ MayCall
    /\ subscribers' = tryRemoveInactive
    /\ sharedLocks' = [sharedLocks EXCEPT ![t] = @ + 1]
    /\ cursor' = [cursor EXCEPT ![t] = 1]
    /\ startLen' = [startLen EXCEPT ![t] = Len(log)]
    /\ pc' = [pc EXCEPT ![t] = "complete_read"]
    /\ completeCalls' = completeCalls + 1
    /\ Call("complete", 0, 0)
    /\ UNCHANGED << inactive, running, useCount, teardownCount, log, created, arg,
                    released >>
    /\ LockFrame

\* An unsubscribe that erases the subscriber from the Subject's list at once.
afterUnsubscribeErased(list, s) == SelectSeq(list, LAMBDA x : x # s)

\* The Subject's list after Subscription::unsubscribe on the Subscription of
\* subscriber s: the Subscription knows only its Execution and the
\* subscriber's flag, the list is left to the next removeInactive.
afterUnsubscribe(list, s) == list

\* One turn of the loop of broadcastValue in thread t: Subscriber::next on
\* the subscriber under the cursor, whose onNext then reacts.
\*   unsubscribe  Subscription::unsubscribe on the observer's own handle:
\*                the exchange on running, the store to the flag, the
\*                teardown; no lock is asked for.
\*   subscribe    Observable::subscribe on the same Subject: the thread
\*                enters SubscriberManager::add while it holds the shared
\*                lock of the running broadcast.
\*   complete     Subject::complete on the same Subject: the try-lock of
\*                removeInactive fails, read takes the shared lock a second
\*                time, completes every subscriber and releases it; then
\*                the thread enters SubscriberManager::clear, still holding
\*                the shared lock of the running broadcast.
LockLoopNext(t, react) ==
    /\ pc[t] = "next_read"
    /\ cursor[t] <= Len(subscribers)
    /\ LET s == subscribers[cursor[t]] IN
         IF inactive[s]
         THEN /\ react = "none"
              /\ cursor' = [cursor EXCEPT ![t] = @ + 1]
              /\ UNCHANGED << inactive, running, teardownCount, log, pc, opCount,
                              lastOp, released, completeCalls, subscribers >>
         ELSE CASE react = "none" ->
                     /\ log' = Append(log, OnNext(s, arg[t]))
                     /\ cursor' = [cursor EXCEPT ![t] = @ + 1]
                     /\ UNCHANGED << inactive, running, teardownCount, pc, opCount,
                                     lastOp, released, completeCalls, subscribers >>
                [] react = "unsubscribe" ->
                     /\ MayCall
                     /\ useCount[s] > 0
                     /\ log' = Append(log, OnNext(s, arg[t]))
                     /\ running' = [running EXCEPT ![s] = FALSE]
                     /\ inactive' = [inactive EXCEPT ![s] = @ \/ running[s]]
                     /\ teardownCount' = [teardownCount EXCEPT
                                            ![s] = @ + (IF running[s] THEN 1 ELSE 0)]
                     /\ released' = [released EXCEPT ![s] = TRUE]
                     /\ cursor' = [cursor EXCEPT ![t] = @ + 1]
                     /\ subscribers' = afterUnsubscribe(subscribers, s)
                     /\ Call("unsubscribe", 0, s)
                     /\ UNCHANGED << pc, completeCalls >>
                [] react = "subscribe" ->
                     /\ MayCall
                     /\ MaySubscribe
                     /\ log' = Append(log, OnNext(s, arg[t]))
                     /\ pc' = [pc EXCEPT ![t] = "add"]
                     /\ Call("subscribe", 0, 0)
                     /\ UNCHANGED << inactive, running, teardownCount, cursor,
                                     released, completeCalls, subscribers >>
                [] react = "complete" ->
                     /\ MayCall
                     /\ log' = Append(log, OnNext(s, arg[t]))
                                 \o broadcastCompletion(subscribers)
                     /\ inactive' = [x \in SubIds |->
                                       inactive[x] \/ x \in Range(subscribers)]
                     /\ pc' = [pc EXCEPT ![t] = "clear"]
                     /\ completeCalls' = completeCalls + 1
                     /\ Call("complete", 0, 0)
                     /\ UNCHANGED << running, teardownCount, cursor, released,
                                     subscribers >>
    /\ UNCHANGED << useCount, created, arg, sharedLocks, startLen >>
    /\ LockFrame

\* One turn of the loop of broadcastCompletion in thread t:
\* Subscriber::complete on the subscriber under the cursor.
LockLoopComplete(t) ==
    /\ pc[t] = "complete_read"
    /\ cursor[t] <= Len(subscribers)
    /\ LET s == subscribers[cursor[t]] IN
         /\ log' = log \o SubscriberComplete(s)
         /\ inactive' = [inactive EXCEPT ![s] = TRUE]
    /\ cursor' = [cursor EXCEPT ![t] = @ + 1]
    /\ UNCHANGED << running, useCount, teardownCount, subscribers, created, pc, arg,
                    opCount, lastOp, released, completeCalls, sharedLocks, startLen >>
    /\ LockFrame

\* The loop of thread t is over: read releases the shared lock. next
\* returns; complete goes on to SubscriberManager::clear, where the thread
\* asks for the unique lock.
LockLoopEnd(t) ==
    /\ pc[t] \in {"next_read", "complete_read"}
    /\ cursor[t] > Len(subscribers)
    /\ sharedLocks' = [sharedLocks EXCEPT ![t] = @ - 1]
    /\ cursor' = [cursor EXCEPT ![t] = 0]
    /\ pc' = [pc EXCEPT ![t] = IF pc[t] = "next_read" THEN "idle" ELSE "clear"]
    /\ UNCHANGED << inactive, running, useCount, teardownCount, log, subscribers,
                    created, arg, opCount, lastOp, released, completeCalls, startLen >>
    /\ LockFrame

\* SubscriberManager::clear gets the unique lock and empties the list;
\* complete returns.
LockClear(t) ==
    /\ pc[t] = "clear"
    /\ UniqueFree
    /\ subscribers' = << >>
    /\ pc' = [pc EXCEPT ![t] = "idle"]
    /\ UNCHANGED << inactive, running, useCount, teardownCount, log, created, arg,
                    opCount, lastOp, released, completeCalls, sharedLocks, cursor,
                    startLen >>
    /\ LockFrame

\* The steps thread t takes inside a call it has started.
LockStep(t) ==
    \/ LockAdd(t)
    \/ \E react \in Reactions : LockLoopNext(t, react)
    \/ LockLoopComplete(t)
    \/ LockLoopEnd(t)
    \/ LockClear(t)

NextLock ==
    \/ \E t \in Threads : LockSubscribeCall(t)
    \/ \E t \in Threads, v \in Values : LockNextCall(t, v)
    \/ \E t \in Threads : LockCompleteCall(t)
    \/ \E t \in Threads : LockStep(t)

\* A Subject without subscribers; a thread inside a call is scheduled again
\* whenever it can take a step.
SpecLock ==
    InitSubject /\ [][NextLock]_vars /\ \A t \in Threads : WF_vars(LockStep(t))

\* -------------------------- the ReplaySubject under two calling threads

\* The Subscriber of the subscribe in progress: the last one made.
Joining == created

\* A call may start on the ReplaySubject.
MayCallConc == opCount < MaxConc

\* The threads inside a subscribe on the ReplaySubject.
Replaying == { u \in Threads : pc[u] \in {"replay", "replay_torn", "add"} }

\* What no step on the ReplaySubject changes.
ReplayFrame ==
    UNCHANGED << teardownCount, hasHandle, released, completeCalls, terminalCalls,
                 lenAtUnsub, errorCalls, bufferSize, behaviorVars, opVars,
                 fromValues, subscriptions, stopFlag, capture, teardownOrder,
                 sharedLocks, startLen >>

\* Observable::subscribe called by thread t: the Subscriber is made and
\* createOnSubscribe's loop over *history begins. The deque has no lock.
ReplayConcSubscribeCall(t) ==
    /\ t = Joiner
    /\ Idle(t)
    /\ MayCallConc
    /\ created + Cardinality(Replaying) < MaxSubs
    /\ created' = created + 1
    /\ inactive' = [inactive EXCEPT ![created + 1] = FALSE]
    /\ pc' = [pc EXCEPT ![t] = "replay"]
    /\ cursor' = [cursor EXCEPT ![t] = 1]
    /\ Call("subscribe", 0, created + 1)
    /\ UNCHANGED << running, useCount, log, subscribers, arg, emitted, history >>
    /\ ReplayFrame

\* One turn of the loop over *history: subscriber.next(value).
ReplayConcLoop(t) ==
    /\ pc[t] = "replay"
    /\ cursor[t] <= Len(history)
    /\ log' = log \o SubscriberNext(Joining, history[cursor[t]])
    /\ cursor' = [cursor EXCEPT ![t] = @ + 1]
    /\ UNCHANGED << inactive, running, useCount, subscribers, created, pc, arg,
                    opCount, lastOp, emitted, history >>
    /\ ReplayFrame

\* One turn of the loop after another thread has erased from or pushed to
\* the deque under it: the iterator is invalid, what it yields is any value.
ReplayConcLoopTorn(t, x) ==
    /\ pc[t] = "replay_torn"
    /\ cursor[t] <= Len(history)
    /\ log' = log \o SubscriberNext(Joining, x)
    /\ cursor' = [cursor EXCEPT ![t] = @ + 1]
    /\ UNCHANGED << inactive, running, useCount, subscribers, created, pc, arg,
                    opCount, lastOp, emitted, history >>
    /\ ReplayFrame

\* The loop over *history is over; onSubscribe goes on to sharedManager->add.
ReplayConcLoopEnd(t) ==
    /\ pc[t] \in {"replay", "replay_torn"}
    /\ cursor[t] > Len(history)
    /\ pc' = [pc EXCEPT ![t] = "add"]
    /\ cursor' = [cursor EXCEPT ![t] = 0]
    /\ UNCHANGED << inactive, running, useCount, log, subscribers, created, arg,
                    opCount, lastOp, emitted, history >>
    /\ ReplayFrame

\* SubscriberManager::add under the unique lock; subscribe returns the
\* Subscription.
ReplayConcAdd(t) ==
    /\ pc[t] = "add"
    /\ UniqueFree
    /\ subscribers' = add(subscribers, Joining)
    /\ running' = [running EXCEPT ![Joining] = TRUE]
    /\ useCount' = [useCount EXCEPT ![Joining] = 1]
    /\ pc' = [pc EXCEPT ![t] = "idle"]
    /\ UNCHANGED << inactive, log, created, arg, opCount, lastOp, emitted, history,
                    cursor >>
    /\ ReplayFrame

\* ReplaySubject::next(v) called by thread t: broadcastValue, from
\* removeInactive to the release of the shared lock.
ReplayConcBroadcast(t, v) ==
    /\ t = Emitter
    /\ Idle(t)
    /\ MayCallConc
    /\ subscribers' = removeInactive(subscribers)
    /\ log' = log \o broadcastValue(subscribers', v)
    /\ emitted' = Append(emitted, v)
    /\ arg' = [arg EXCEPT ![t] = v]
    /\ pc' = [pc EXCEPT ![t] = "push"]
    /\ Call("next", v, 0)
    /\ UNCHANGED << inactive, running, useCount, created, history, cursor >>
    /\ ReplayFrame

\* ReplaySubject::next, after the broadcast: the erase of the oldest value
\* of a full buffer and the push_back. A loop of createOnSubscribe that is
\* running over the deque has its iterator invalidated.
ReplayConcPush(t) ==
    /\ pc[t] = "push"
    /\ history' = pushHistory(history, bufferSize, arg[t])
    /\ pc' = [u \in Threads |->
                IF u = t THEN "idle"
                ELSE IF pc[u] = "replay" THEN "replay_torn"
                ELSE pc[u]]
    /\ UNCHANGED << inactive, running, useCount, log, subscribers, created, arg,
                    opCount, lastOp, emitted, cursor >>
    /\ ReplayFrame

NextReplayConc ==
    \/ \E t \in Threads : ReplayConcSubscribeCall(t)
    \/ \E t \in Threads : ReplayConcLoop(t)
    \/ \E t \in Threads, x \in Values : ReplayConcLoopTorn(t, x)
    \/ \E t \in Threads : ReplayConcLoopEnd(t)
    \/ \E t \in Threads : ReplayConcAdd(t)
    \/ \E t \in Threads, v \in Values : ReplayConcBroadcast(t, v)
    \/ \E t \in Threads : ReplayConcPush(t)

\* A ReplaySubject just constructed, with any bufferSize, used by a thread
\* that emits and a thread that subscribes.
SpecReplayConc == InitReplay /\ [][NextReplayConc]_vars

\* ---------------------------------------------------------- claims of Spec

\* C1: under any interleaving of next, error, complete and unsubscribe calls
\* from any number of threads, the Observer of a Subscriber has onError plus
\* onComplete invoked at most once.
C1_TerminalUniqueness == TerminalCount(S0) <= 1

\* Two or more terminal calls were made and exactly one reached the Observer.
C1_Witness == terminalCalls >= 2 /\ TerminalCount(S0) = 1

\* C2: no onNext fires on an Observer after its terminal callback (onError or
\* onComplete) has fired, also when next races with complete or error.
C2_SilenceAfterTerminal ==
    \A i, j \in 1..Len(log) :
        (i < j /\ log[i].sub = log[j].sub /\ IsTerminal(log[i])) => log[j].kind # "next"

\* C3: once an unsubscribe() call has returned, no callback fires on the
\* Observer, also when a producer is inside next at that moment.
C3_SilenceAfterUnsubscribe == lenAtUnsub # -1 => Len(log) = lenAtUnsub

\* C4: the teardown closure never runs twice, and once every handle of the
\* subscription is gone it has run exactly once.
C4_TeardownExactlyOnce ==
    /\ teardownCount[S0] <= 1
    /\ useCount[S0] = 0 => teardownCount[S0] = 1

NewCalls == SubSeq(log', Len(log) + 1, Len(log'))

\* The step is a call of the given kind.
IsCall(op) == opCount' # opCount /\ lastOp'.op = op

\* The subscribers created so far whose flag is clear, in registration order.
ActiveInOrder == SelectSeq([i \in 1..created |-> i], LAMBDA s : ~inactive[s])

\* C6: within one next(v) on a Subject, every subscriber active at the time
\* of the call receives onNext(v), in registration order, and nothing else is
\* invoked; all of it has happened when next returns.
C6_BroadcastOrder ==
    [][ IsCall("next") =>
          NewCalls = [i \in 1..Len(ActiveInOrder) |-> OnNext(ActiveInOrder[i], lastOp'.val)]
      ]_vars

\* The latest call was a next that reached two subscribers, the earlier
\* registered one first, while an older subscriber was inactive.
C6_Witness ==
    /\ lastOp.op = "next"
    /\ Len(log) >= 2
    /\ log[Len(log) - 1] = OnNext(2, lastOp.val)
    /\ log[Len(log)] = OnNext(3, lastOp.val)
    /\ inactive[1]

\* C7: in a single-threaded sequence of subscribe, drop/unsubscribe and next
\* calls, each next(v) invokes onNext(v) exactly once on every observer that
\* subscribed before the call and whose Subscription was neither unsubscribed
\* nor destroyed, and invokes nothing on any other observer.
C7_ExactlyOncePerLiveObserver ==
    [][ (IsCall("next") /\ completeCalls = 0) =>
          \A s \in SubIds :
              SelectSeq(NewCalls, LAMBDA e : e.sub = s) =
                  IF s <= created /\ ~released[s] THEN << OnNext(s, lastOp'.val) >> ELSE << >>
      ]_vars

\* The latest call was a next, with no complete before it, that reached an
\* observer whose Subscription is alive and skipped one that had received an
\* earlier value and whose Subscription was released since.
C7_Witness ==
    /\ lastOp.op = "next"
    /\ completeCalls = 0
    /\ \E s1, s2 \in 1..created :
         /\ released[s1]
         /\ ~released[s2]
         /\ Len(Received(s1)) = 1
         /\ log[Len(log)] = OnNext(s2, lastOp.val)
         /\ Len(Received(s2)) = 2

\* C8: once complete() has been called on a Subject, a later next() or
\* complete() invokes no callback on any observer.
C8_NoEffectAfterTermination ==
    [][ (completeCalls > 0 /\ (IsCall("next") \/ IsCall("complete"))) => log' = log ]_vars

\* C9: an observer that subscribes after the Subject completed receives
\* onComplete during subscribe.
C9_LateSubscriberTerminated ==
    [][ (completeCalls > 0 /\ IsCall("subscribe")) =>
          NewCalls = << OnComplete(lastOp'.sub) >>
      ]_vars

\* C10: the first complete() invokes onComplete exactly once on every active
\* subscriber and leaves the list empty; a second complete() invokes nothing.
C10_CompleteOnce ==
    [][ IsCall("complete") =>
          IF completeCalls = 0
            THEN /\ NewCalls = [i \in 1..Len(ActiveInOrder) |-> OnComplete(ActiveInOrder[i])]
                 /\ subscribers' = << >>
            ELSE log' = log
      ]_vars

\* ---------------------------------------------- claims of SpecSubjectError

\* C11: the first error(e) on an open Subject invokes onError exactly once
\* on every active subscriber and leaves the subscriber list empty; a later
\* error() invokes no callback.
C11_ErrorOnce ==
    [][ IsCall("error") =>
          IF errorCalls = 0 /\ completeCalls = 0
            THEN /\ NewCalls = [i \in 1..Len(ActiveInOrder) |-> OnError(ActiveInOrder[i])]
                 /\ subscribers' = << >>
            ELSE log' = log
      ]_vars

\* ---------------------------------------------------- claims of SpecReplay

\* The values as onNext callbacks of subscriber s.
AsNext(s, vals) == [i \in 1..Len(vals) |-> OnNext(s, vals[i])]

\* The last c elements of a sequence (all of it when c = 0 or it is shorter).
LastK(seq, c) ==
    IF c = 0 \/ Len(seq) <= c THEN seq ELSE SubSeq(seq, Len(seq) - c + 1, Len(seq))

\* C14: a subscribe on a ReplaySubject delivers the buffered values, oldest
\* first, and nothing else; a later next(v) reaches every subscriber still
\* subscribed once; and with bufferSize 0, when the subject completes, every
\* subscriber still subscribed, early or late, has received all the emitted
\* values in order followed by one onComplete.
C14_ReplayThenLive ==
    [][ /\ IsCall("subscribe") => NewCalls = AsNext(lastOp'.sub, history)
        /\ (IsCall("next") /\ completeCalls = 0) =>
             \A s \in 1..created :
                 ~released[s] =>
                     SelectSeq(NewCalls, LAMBDA e : e.sub = s) = << OnNext(s, lastOp'.val) >>
        /\ (IsCall("complete") /\ completeCalls = 0 /\ bufferSize = 0) =>
             \A s \in 1..created :
                 ~released[s] =>
                     SelectSeq(log', LAMBDA e : e.sub = s) =
                         AsNext(s, emitted) \o << OnComplete(s) >>
      ]_vars

\* An unbounded ReplaySubject has completed after three values; subscriber 1
\* was there from the start, subscriber 2 arrived after the first two values,
\* and both have the three values and the completion.
C14_Witness ==
    /\ bufferSize = 0
    /\ lastOp.op = "complete"
    /\ Len(emitted) = 3
    /\ Received(1) = AsNext(1, emitted) \o << OnComplete(1) >>
    /\ Received(2) = AsNext(2, emitted) \o << OnComplete(2) >>
    /\ \E i \in 1..Len(log) - 1 : log[i].sub = 2 /\ log[i + 1].sub = 2

\* C15: after n next calls the history holds the last min(n, bufferSize)
\* emitted values in emission order when bufferSize > 0, and all n values
\* when bufferSize = 0.
C15_HistoryIsLastValues ==
    /\ history = LastK(emitted, bufferSize)
    /\ bufferSize > 0 => Len(history) <= bufferSize

\* A bounded buffer has evicted at least twice.
C15_Witness ==
    /\ bufferSize > 0
    /\ Len(emitted) >= bufferSize + 2
    /\ Len(history) = bufferSize

\* C16: an observer that subscribes to a ReplaySubject after it completed
\* receives the replay buffer in order and then onComplete.
C16_ReplayThenTerminal ==
    [][ (IsCall("subscribe") /\ completeCalls > 0) =>
          NewCalls = AsNext(lastOp'.sub, history) \o << OnComplete(lastOp'.sub) >>
      ]_vars

\* -------------------------------------------------- claims of SpecBehavior

\* The value of the most recent next() call, or the construction-time value
\* when next was never called.
Latest == IF emitted = << >> THEN initialValue ELSE emitted[Len(emitted)]

\* C12: an observer subscribing to a BehaviorSubject receives during
\* subscribe exactly one value, the one passed to the most recent next() (or
\* the initial value), and each later next(v) reaches it exactly once while it
\* stays subscribed.
C12_LatestOnSubscribe ==
    [][ /\ IsCall("subscribe") => NewCalls = << OnNext(lastOp'.sub, Latest) >>
        /\ (IsCall("next") /\ completeCalls = 0) =>
             \A s \in 1..created :
                 ~released[s] =>
                     SelectSeq(NewCalls, LAMBDA e : e.sub = s) = << OnNext(s, lastOp'.val) >>
      ]_vars

\* ---------------------------------------------- claims of SpecBehaviorConc

\* The value current after the first k next calls.
CurrentAfter(k) == emitted[k]

\* C13: when subscribe races with next calls, what the new subscriber has
\* received once every call has returned is the value current at some splice
\* point followed by exactly the values of the next calls ordered after it.
C13_AtomicSplice ==
    (\A t \in Threads : Idle(t)) =>
        \A s \in 1..created :
            \E k \in 1..Len(emitted) :
                Received(s) =
                    AsNext(s, << CurrentAfter(k) >> \o SubSeq(emitted, k + 1, Len(emitted)))


\* ------------------------------------------------- claims of SpecOperator

\* The operator's output has been subscribed to and no input has completed
\* since.
Piped(kind) == opKind = kind /\ created >= 1 /\ doneInputs = {}

\* The values of the onNext callbacks subscriber s has received, in order.
NextValues(s) ==
    LET nexts == SelectSeq(Received(s), LAMBDA e : e.kind = "next") IN
      [i \in 1..Len(nexts) |-> nexts[i].val]

\* C17: with map(f) piped on the source and the output subscribed to, every
\* next(v) of the source invokes the downstream onNext(f(v)) once and
\* nothing else, and the completion of the source invokes the downstream
\* onComplete once.
C17_MapForwards ==
    [][ Piped("map") =>
          /\ IsCall("next") => NewCalls = << OnNext(Downstream, mapFunc(lastOp'.val)) >>
          /\ IsCall("complete") => NewCalls = << OnComplete(Downstream) >>
      ]_vars

\* A sequence without the later occurrences of each value.
RECURSIVE FirstOccurrences(_)
FirstOccurrences(seq) ==
    IF seq = << >> THEN << >>
    ELSE LET front == SubSeq(seq, 1, Len(seq) - 1)
             x == seq[Len(seq)] IN
           IF x \in Range(front) THEN FirstOccurrences(front)
           ELSE Append(FirstOccurrences(front), x)

\* C18: with distinct() piped on the source and the output subscribed to,
\* the values the downstream observer has received are the distinct values
\* the source has emitted, each once, in order of first occurrence, and the
\* completion of the source invokes the downstream onComplete.
C18_DistinctFirstOccurrences ==
    /\ []((opKind = "distinct" /\ created >= 1) =>
            NextValues(Downstream) = FirstOccurrences(sourceSeq))
    /\ [][ (Piped("distinct") /\ IsCall("complete")) =>
             NewCalls = << OnComplete(Downstream) >> ]_vars

\* A sequence with every run of equal neighbours collapsed to one element.
RECURSIVE CollapseRuns(_)
CollapseRuns(seq) ==
    IF seq = << >> THEN << >>
    ELSE LET front == SubSeq(seq, 1, Len(seq) - 1)
             x == seq[Len(seq)] IN
           IF front # << >> /\ front[Len(front)] = x THEN CollapseRuns(front)
           ELSE Append(CollapseRuns(front), x)

\* C19: with distinctUntilChanged() piped on the source and the output
\* subscribed to, the values the downstream observer has received are the
\* values the source has emitted with every run of consecutive equal values
\* collapsed to one (the first value is always forwarded).
C19_RunsCollapsed ==
    (opKind = "distinctUntilChanged" /\ created >= 1) =>
        NextValues(Downstream) = CollapseRuns(sourceSeq)

\* C20: with combineLatest piped on the source and the output subscribed
\* to, a next of an input invokes nothing downstream while some input has
\* not emitted yet, and otherwise invokes the downstream onNext exactly once
\* with the tuple of the latest value of every input.
C20_TupleOncePerNext ==
    [][ (Piped("combineLatest") /\ IsCall("next")) =>
          NewCalls = IF \A j \in Inputs : lastIn'[j] # << >>
                     THEN << OnNext(Downstream, << lastIn'[0][1], lastIn'[1][1] >>) >>
                     ELSE << >>
      ]_vars

\* The step is a call of the given kind on input i, which has not completed
\* or failed since the operator's output was subscribed to.
IsInputCall(op, i) ==
    IsCall(op) /\ lastOp'.sub = i /\ created >= 1 /\ i \notin doneInputs

\* C21: with combineLatest piped on the source and the output subscribed
\* to, the completion of an input invokes the downstream onComplete once
\* when every other input has completed before, and nothing while some
\* other input has not completed.
C21_CompleteWithLastInput ==
    [][ \A i \in Inputs :
          (opKind = "combineLatest" /\ errorCalls = 0 /\ IsInputCall("complete", i)) =>
              NewCalls = IF doneInputs \cup {i} = Inputs
                         THEN << OnComplete(Downstream) >> ELSE << >>
      ]_vars

\* C22: with combineLatest or withLatestFrom piped on the source and the
\* output subscribed to, the first error of an input invokes the downstream
\* onError once, and when the call returns the intermediate subscriber of
\* every input is inactive.
C22_ErrorCancelsInputs ==
    [][ \A i \in Inputs :
          ( /\ opKind \in {"combineLatest", "withLatestFrom"}
            /\ doneInputs = {}
            /\ IsInputCall("error", i) ) =>
              /\ NewCalls = << OnError(Downstream) >>
              /\ \A j \in Inputs : inactive'[Intermediate(j)]
      ]_vars

\* C23: with withLatestFrom piped on the source and the output subscribed
\* to, a next(v) of the source invokes the downstream onNext once with the
\* tuple of v and the latest value of the other when the other has emitted,
\* and nothing when it has not; a next of the other invokes nothing
\* downstream.
C23_SampleOnSource ==
    [][ (Piped("withLatestFrom") /\ IsCall("next")) =>
          NewCalls = IF lastOp'.sub = 0 /\ lastIn[1] # << >>
                     THEN << OnNext(Downstream, << lastOp'.val, lastIn[1][1] >>) >>
                     ELSE << >>
      ]_vars

\* C24: with withLatestFrom piped on the source and the output subscribed
\* to, the completion of the source invokes the downstream onComplete once,
\* whether or not the other has completed, and the completion of the other
\* invokes nothing downstream.
C24_CompleteWithSource ==
    [][ \A i \in Inputs :
          (opKind = "withLatestFrom" /\ errorCalls = 0 /\ IsInputCall("complete", i)) =>
              NewCalls = IF i = 0 THEN << OnComplete(Downstream) >> ELSE << >>
      ]_vars

\* ----------------------------------------------------- claims of SpecCold

\* The callbacks subscriber s has received, without the subscriber's name.
Observed(s) == [i \in 1..Len(Received(s)) |-> << Received(s)[i].kind, Received(s)[i].val >>]

Disposes(s) ==
    /\ inactive'[s]
    /\ ~running'[s]
    /\ teardownCount'[s] = teardownCount[s] + 1

\* C26 (as claimed): the drop of a handle of a Subscription whose execution
\* is running sets the Subscriber's inactive flag and runs the teardown
\* closure, as unsubscribe() does.
C26_DropDisposes ==
    [][ (IsCall("drop") /\ running[lastOp'.sub]) => Disposes(lastOp'.sub) ]_vars

\* C26 (amended): the drop of the only remaining handle of a Subscription
\* whose execution is running sets the Subscriber's inactive flag and runs
\* the teardown closure once; the drop of a handle while another handle of
\* the same Subscription exists changes neither the flag nor the execution
\* nor the teardown count.
C26_LastDropDisposes ==
    [][ (IsCall("drop") /\ running[lastOp'.sub]) =>
          IF useCount[lastOp'.sub] = 1 THEN Disposes(lastOp'.sub)
          ELSE /\ inactive' = inactive
               /\ running' = running
               /\ teardownCount' = teardownCount
      ]_vars

\* The only handle of a subscription just made has been dropped, which
\* disposed of it.
C26_Witness ==
    /\ lastOp = [op |-> "drop", val |-> 0, sub |-> 1]
    /\ opCount = 2
    /\ created = 1
    /\ useCount[1] = 0
    /\ inactive[1]
    /\ ~running[1]
    /\ teardownCount[1] = 1

\* C27: when unsubscribe() on a parent Subscription returns, every child
\* that was passed to add() is disposed of (its Subscriber is inactive, its
\* execution is not running and its teardown has run), also when the caller
\* still holds the handle it passed.
C27_ChildrenDisposed ==
    [][ (IsCall("unsubscribe") /\ lastOp'.sub = 0) =>
          \A s \in Range(subscriptions) :
              inactive'[s] /\ ~running'[s] /\ teardownCount'[s] >= 1
      ]_vars

C29_ProducerStops ==
    /\ [](lenAtUnsub # -1 => (stopFlag /\ Len(log) = lenAtUnsub))
    /\ (lenAtUnsub # -1) ~> (pc[Producer] = "exited")

\* ------------------------------------------- the flag of a Subscriber (Spec)

\* The step belongs to an unsubscribe() call of some thread.
UnsubscribeStep ==
    \/ lenAtUnsub' # lenAtUnsub
    \/ \E t \in Threads :
         /\ pc'[t] # pc[t]
         /\ {pc[t], pc'[t]} \cap {"unsub_store", "unsub_teardown"} # {}

\* C30: the inactive flag of a Subscriber is false when subscribe returns;
\* it is true once error or complete has reached the Observer and once the
\* teardown of an unsubscribe has run; no step of any operation takes it
\* from true back to false; and no step of an unsubscribe() call invokes a
\* callback of the Observer.
C30_InactiveAbsorbing ==
    /\ ~inactive[S0]
    /\ []((TerminalCount(S0) > 0 \/ teardownCount[S0] > 0) => inactive[S0])
    /\ [][inactive[S0] => inactive'[S0]]_vars
    /\ [][UnsubscribeStep => log' = log]_vars

\* The Observer got a value and then the completion, which set the flag; an
\* unsubscribe() of the still running execution has since returned, its
\* teardown has run, and the flag is still set.
C30_Witness ==
    /\ inactive[S0]
    /\ Len(log) = 2
    /\ log[2] = OnComplete(S0)
    /\ lenAtUnsub = 2
    /\ teardownCount[S0] = 1
    /\ \A t \in Threads : pc[t] = "idle"

\* The place of the first teardown of subscription s in the order the
\* teardowns ran, 0 when it has not run.
RanAt(s) ==
    IF \E i \in 1..Len(teardownOrder) : teardownOrder[i] = s
    THEN CHOOSE i \in 1..Len(teardownOrder) :
           /\ teardownOrder[i] = s
           /\ \A j \in 1..(i - 1) : teardownOrder[j] # s
    ELSE 0

\* C31: when a Subscription that has children and a running execution of
\* its own is released, by unsubscribe() or by the drop of its handle, the
\* teardown of every child has run, and it ran before the parent's own
\* teardown.
C31_ChildrenBeforeParent ==
    [][ ( /\ IsCall("unsubscribe") \/ IsCall("drop")
          /\ lastOp'.sub = ParentSub
          /\ running[ParentSub] )
        => \A s \in Range(subscriptions) :
             /\ RanAt(s)' > 0
             /\ RanAt(s)' < RanAt(ParentSub)'
      ]_vars

\* C35: the destruction of one copy of a Subscription handle while another
\* copy of the same execution is alive leaves the subscriber's flag, the
\* execution, the teardown and the Subject's list as they were; a subscriber
\* of a Subject that has not completed receives every value as long as no
\* handle was unsubscribed and a handle is left, and receives none once a
\* handle was unsubscribed or the last one was destroyed.
C35_CopyDropKeepsAlive ==
    /\ [][ (IsCall("drop") /\ useCount[lastOp'.sub] >= 2)
            => /\ inactive' = inactive
               /\ running' = running
               /\ teardownCount' = teardownCount
               /\ subscribers' = subscribers ]_vars
    /\ [][ IsCall("next") =>
             \A s \in 1..created :
                /\ (~released[s] /\ completeCalls = 0)
                     => OnNext(s, lastOp'.val) \in Range(NewCalls)
                /\ released[s] => \A e \in Range(NewCalls) : e.sub # s ]_vars

\* A copy was just destroyed while another one is alive: the subscription
\* has one handle left and is still delivering.
C35_Witness ==
    /\ lastOp.op = "drop"
    /\ useCount[lastOp.sub] = 1
    /\ running[lastOp.sub]
    /\ ~inactive[lastOp.sub]
    /\ teardownCount[lastOp.sub] = 0
    /\ lastOp.sub \in Range(subscribers)

\* C34: a subscribe on source.pipe(withLatestFrom(source)), the source made
\* by from out of a non-empty vector, invokes the downstream onNext once for
\* every element v of the vector, in the vector's order, with v paired with
\* the last element, and then onComplete.
C34_NoSourceValueDropped ==
    [][ (opKind = "withLatestFrom" /\ fromValues # << >> /\ IsCall("subscribe")) =>
          NewCalls =
            [i \in 1..Len(fromValues) |->
               OnNext(lastOp'.sub, << fromValues[i], fromValues[Len(fromValues)] >>)]
            \o << OnComplete(lastOp'.sub) >>
      ]_vars

\* The operators that keep state per subscription.
Stateful == {"distinct", "distinctUntilChanged", "combineLatest", "withLatestFrom"}

\* The value v that input i emits in this step is one the operator answers
\* with a downstream next: a value the source has not emitted before
\* (distinct), one that differs from the source's previous value
\* (distinctUntilChanged), any value once every input has emitted
\* (combineLatest), a value of the source once the other input has emitted
\* (withLatestFrom).
AnsweredDownstream(i, v) ==
    CASE opKind = "distinct" -> i = 0 /\ v \notin Range(sourceSeq)
      [] opKind = "distinctUntilChanged" ->
           i = 0 /\ (sourceSeq = << >> \/ sourceSeq[Len(sourceSeq)] # v)
      [] opKind = "combineLatest" -> \A j \in Inputs : lastIn'[j] # << >>
      [] opKind = "withLatestFrom" -> i = 0 /\ lastIn[1] # << >>
      [] OTHER -> FALSE

C36_EveryCallReturns ==
    \A t \in Threads : (pc[t] # "idle") ~> (pc[t] = "idle")

\* C37: when complete() returns, every subscriber that subscribed before,
\* also one whose subscribe ran at the same time as the complete, and whose
\* Subscription was not unsubscribed has received onComplete or is still in
\* the Subject's list.
C37_CompletedOrStillListed ==
    [][ \A t \in Threads :
          (pc[t] = "clear" /\ pc'[t] = "idle") =>
             \A s \in 1..created :
                ~released[s] =>
                   \/ OnComplete(s) \in Range(log')
                   \/ s \in Range(subscribers')
      ]_vars

\* The callbacks invoked since thread t began its broadcast.
SinceStart(t) == SubSeq(log, startLen[t] + 1, Len(log))

\* C32: an observer calls unsubscribe() on its own Subscription inside its
\* onNext during a broadcast of the Subject. The call asks for no lock and
\* the thread goes on with the loop; the list stays as it is while the
\* broadcast runs, and a subscriber leaves it only when a later next or
\* complete begins or a complete clears it; when next returns, every
\* subscriber of the list that is still active has received the value in
\* this broadcast; and an observer whose Subscription was unsubscribed
\* receives no value afterwards.
C32_UnsubscribeInsideOnNext ==
    /\ [][ IsCall("unsubscribe") =>
             \A t \in Threads :
                pc[t] = "next_read" =>
                   /\ pc'[t] = "next_read"
                   /\ cursor'[t] = cursor[t] + 1
                   /\ sharedLocks' = sharedLocks ]_vars
    /\ [][ (\E t \in Threads : sharedLocks[t] > 0) => subscribers' = subscribers ]_vars
    /\ [][ (\E s \in Range(subscribers) : s \notin Range(subscribers')) =>
             \/ IsCall("next")
             \/ IsCall("complete")
             \/ \E t \in Threads : pc[t] = "clear" /\ pc'[t] = "idle" ]_vars
    /\ [][ \A t \in Threads :
             (pc[t] = "next_read" /\ pc'[t] = "idle") =>
                \A s \in Range(subscribers) :
                   ~inactive[s] => OnNext(s, arg[t]) \in Range(SinceStart(t)) ]_vars
    /\ [][ \A e \in Range(NewCalls) : e.kind = "next" => ~released[e.sub] ]_vars

\* A broadcast has returned in which an observer unsubscribed itself inside
\* its onNext: it is inactive and still in the list, and a subscriber behind
\* it in the list was the last to receive the value.
C32_Witness ==
    /\ lastOp.op = "unsubscribe"
    /\ pc[Emitter] = "idle"
    /\ inactive[lastOp.sub]
    /\ \E i, j \in 1..Len(subscribers) :
         /\ i < j
         /\ subscribers[i] = lastOp.sub
         /\ log # << >>
         /\ log[Len(log)] = OnNext(subscribers[j], arg[Emitter])

\* How often the observer of subscriber s received the value v.
TimesReceived(s, v) ==
    Len(SelectSeq(log, LAMBDA e : e.sub = s /\ e.kind = "next" /\ e.val = v))

\* How often the value v was passed to next of the subject.
TimesEmitted(v) == Len(SelectSeq(emitted, LAMBDA x : x = v))

\* C38: on a ReplaySubject that keeps every value (bufferSize 0), once the
\* calls of subscribe and of next have returned, in whatever way they ran
\* at the same time, every subscriber has received every value passed to
\* next exactly as often as it was passed: once per next(v), through the
\* replay or through the broadcast, never twice and never not at all.
C38_ExactlyOnceAcrossSubscribe ==
    (bufferSize = 0 /\ \A t \in Threads : pc[t] = "idle") =>
        \A s \in 1..created : \A v \in Values :
            TimesReceived(s, v) = TimesEmitted(v)

====
